---- MODULE Spec2Model ----
(***************************************************************************)
(* The category classification engine of metadata-extractor:               *)
(*   - CKANSiteTypeDetector.get_site_type (src/3-siteType.py): primary     *)
(*     pattern matcher, confidence floors, candidate selection and the     *)
(*     ordered fallback chain;                                             *)
(*   - normalize_region (src/5-locationAnalyser.py): the region            *)
(*     normalizer.                                                         *)
(* Strings are TLA+ strings; TLC evaluates Len, \o and SubSeq on them      *)
(* character by character, so every match below is computed on the text.   *)
(***************************************************************************)
EXTENDS Integers, Sequences, FiniteSets, TLC

VARIABLES
    url,            \* get_site_type: the argument
    pc,             \* get_site_type: position in the call
    domain_matches, \* get_site_type: analyze_domain's result
    site_type,      \* get_site_type: local site_type
    confidence,     \* get_site_type: local confidence
    metadata,       \* get_site_type: the returned metadata
    resolved_by,    \* the return statement that produced (site_type, confidence)
    region,         \* normalize_region: the argument
    rpc,            \* normalize_region: position in the call
    region_out,     \* normalize_region: value returned by the first call
    region_again,   \* normalize_region applied to region_out
    row,            \* process_site: the row of the input table
    spc,            \* process_site: position in the call
    attempt,        \* get_llm_response: the loop variable
    location_data,  \* get_llm_response: parse_llm_response's last result
    llm,            \* process_site: (result, error) of get_llm_response
    out_row,        \* process_site: the dict returned for the output row
    sleeps,         \* get_llm_response: the waits made, in seconds
    max_retries,    \* get_llm_response: the argument max_retries
    tries,          \* get_llm_response: how each pass of the loop ended
    hcall,          \* one fallback method called on its own: method, url, result
    calls,          \* concurrent calls: each worker's call and its locals
    self_domain_patterns    \* the detector's attribute shared by the workers

classifyVars == <<url, pc, domain_matches, site_type, confidence, metadata, resolved_by>>
regionVars == <<region, rpc, region_out, region_again>>
siteVars == <<row, spc, attempt, location_data, llm, out_row, sleeps, max_retries,
              tries>>
heurVars == <<hcall>>
concVars == <<calls, self_domain_patterns>>
vars == <<url, pc, domain_matches, site_type, confidence, metadata, resolved_by,
          region, rpc, region_out, region_again,
          row, spc, attempt, location_data, llm, out_row, sleeps, max_retries,
          tries, hcall, calls, self_domain_patterns>>

(***************************************************************************)
(* Python str operations                                                   *)
(***************************************************************************)
CharAt(s, i) == SubSeq(s, i, i)

\* t in s
Contains(s, t) ==
    \E i \in 1..(Len(s) - Len(t) + 1) : SubSeq(s, i, i + Len(t) - 1) = t

\* s.endswith(t)
EndsWith(s, t) ==
    Len(t) <= Len(s) /\ SubSeq(s, Len(s) - Len(t) + 1, Len(s)) = t

\* s.startswith(t)
StartsWith(s, t) ==
    Len(t) <= Len(s) /\ SubSeq(s, 1, Len(t)) = t

\* s.find(c) for a single character c, 1-based; 0 when absent (Python: -1)
Find(s, c) ==
    IF \E i \in 1..Len(s) : CharAt(s, i) = c
    THEN CHOOSE i \in 1..Len(s) :
            CharAt(s, i) = c /\ \A j \in 1..(i - 1) : CharAt(s, j) # c
    ELSE 0

LowerAlpha == "abcdefghijklmnopqrstuvwxyz"
UpperAlpha == "ABCDEFGHIJKLMNOPQRSTUVWXYZ"
Digits == "0123456789"

Chars(s) == {CharAt(s, i) : i \in 1..Len(s)}
LowerLetters == Chars(LowerAlpha)
UpperLetters == Chars(UpperAlpha)
DigitChars == Chars(Digits)

\* c.islower(), c.isupper(), c.isdigit() for one ASCII character
IsLower(c) == c \in LowerLetters
IsUpper(c) == c \in UpperLetters
IsDigit(c) == c \in DigitChars

LowerChar(c) == IF IsUpper(c) THEN CharAt(LowerAlpha, Find(UpperAlpha, c)) ELSE c

\* s.lower()
RECURSIVE Lower(_)
Lower(s) ==
    IF s = "" THEN "" ELSE LowerChar(CharAt(s, 1)) \o Lower(SubSeq(s, 2, Len(s)))

\* len(s.split('.'))
NumParts(s) == Cardinality({i \in 1..Len(s) : CharAt(s, i) = "."}) + 1

\* s.split('.')[0]
FirstPart(s) ==
    IF Find(s, ".") = 0 THEN s ELSE SubSeq(s, 1, Find(s, ".") - 1)

(***************************************************************************)
(* urllib.parse.urlparse(url).netloc, for ASCII text without leading       *)
(* blanks or control characters: an optional scheme (a letter, then        *)
(* letters, digits, '+', '-', '.', up to the first ':') is removed; a      *)
(* netloc exists only when what follows starts with "//" and runs to the   *)
(* first of '/', '?', '#'.  A netloc with an unmatched '[' or ']' makes    *)
(* urlparse raise ValueError.                                              *)
(***************************************************************************)
IsSchemeChar(c) == IsLower(c) \/ IsUpper(c) \/ IsDigit(c) \/ c \in {"+", "-", "."}

AfterScheme(u) ==
    LET i == Find(u, ":")
    IN  IF /\ i > 1
           /\ (IsLower(CharAt(u, 1)) \/ IsUpper(CharAt(u, 1)))
           /\ \A j \in 1..(i - 1) : IsSchemeChar(CharAt(u, j))
        THEN SubSeq(u, i + 1, Len(u))
        ELSE u

IsDelim(c) == c \in {"/", "?", "#"}

RawNetloc(u) ==
    LET r == AfterScheme(u)
    IN  IF StartsWith(r, "//")
        THEN LET ends == {i \in 3..Len(r) : IsDelim(CharAt(r, i))}
                 delim == IF ends = {} THEN Len(r) + 1
                          ELSE CHOOSE i \in ends : \A j \in ends : i <= j
             IN  SubSeq(r, 3, delim - 1)
        ELSE ""

UrlparseRaises(u) ==
    LET n == RawNetloc(u)
    IN  \/ Contains(n, "[") /\ ~Contains(n, "]")
        \/ Contains(n, "]") /\ ~Contains(n, "[")

Netloc(u) == RawNetloc(u)

\* domain = urlparse(url).netloc.lower()
Domain(u) == Lower(Netloc(u))

(***************************************************************************)
(* re.search(pattern, domain) for the three shapes of pattern the tables   *)
(* hold.  An escaped dot is the character '.'.                             *)
(***************************************************************************)
\* literal text, e.g. r'government', r'state\.', r'\.gc\.'
Lit(t) == [kind |-> "lit", text |-> t]
\* text followed by (\.|$), e.g. r'\.gov(\.|$)'
DotOrEnd(t) == [kind |-> "dot_or_end", text |-> t]
\* text followed by [a-z]{2}, e.g. r'\.go\.[a-z]{2}'
TwoLetters(t) == [kind |-> "two_letters", text |-> t]

Search(p, s) ==
    CASE p.kind = "lit" -> Contains(s, p.text)
      [] p.kind = "dot_or_end" -> Contains(s, p.text \o ".") \/ EndsWith(s, p.text)
      [] p.kind = "two_letters" ->
            \E i \in 1..(Len(s) - Len(p.text) - 1) :
                /\ SubSeq(s, i, i + Len(p.text) - 1) = p.text
                /\ IsLower(CharAt(s, i + Len(p.text)))
                /\ IsLower(CharAt(s, i + Len(p.text) + 1))

(***************************************************************************)
(* self.domain_patterns, in the dict's (insertion) order                   *)
(***************************************************************************)
domain_patterns == <<
    [category |-> "Government", priority |-> 1, patterns |-> <<
        DotOrEnd(".gov"), DotOrEnd(".gob"), DotOrEnd(".govt"),
        TwoLetters(".go."), Lit(".gc."), DotOrEnd(".mil"),
        Lit("government"), Lit("federal"), Lit("state."), Lit("city."),
        Lit("ministry"), Lit("municipal"), Lit("council"), Lit("administration"),
        Lit("public-data"), Lit("opendata.government"), Lit("data.gov"),
        Lit("datos.gob"), Lit("donnees.gouv"), Lit("dati.gov"),
        Lit(".admin."), Lit(".public."), Lit(".ciudad."),
        Lit("prefecture"), Lit("region."), Lit("departement."),
        Lit("provincia."), Lit("comune."), Lit("canton.") >>],
    [category |-> "Educational", priority |-> 2, patterns |-> <<
        DotOrEnd(".edu"), TwoLetters(".ac."), TwoLetters(".edu."),
        Lit("university"), Lit("universit"), Lit("universidad"),
        Lit("college"), Lit("school"), Lit("academy"), Lit("academia"),
        Lit("institute"), Lit("education"), Lit("educational"),
        Lit("campus"), Lit("faculty"), Lit("department"),
        Lit("hochschule"), Lit("universiteit"), Lit("universite"),
        Lit("politecnico"), Lit("politechnic") >>],
    [category |-> "Research", priority |-> 3, patterns |-> <<
        Lit("research"), Lit("science"), Lit("scientific"), Lit("ciencia"),
        Lit("laboratory"), Lit("laboratorio"), Lit("labo"),
        Lit("innovation"), Lit("technology"), Lit("tech."),
        Lit("experiment"), Lit("discovery"), Lit("institut"),
        Lit("observatory"), Lit("center-for"), Lit("centre-for"),
        Lit("biomedical"), Lit("genomics"), Lit("physics"),
        Lit("chemistry"), Lit("biology"), Lit("ecology"),
        Lit("climate"), Lit("weather"), Lit("space"), Lit("nasa"),
        Lit("cern"), Lit("noaa"), Lit("nih."), Lit("nsf.") >>],
    [category |-> "Healthcare", priority |-> 4, patterns |-> <<
        Lit("health"), Lit("hospital"), Lit("medical"), Lit("medicine"),
        Lit("clinic"), Lit("healthcare"), Lit("salud"), Lit("sante"),
        Lit("nhs"), Lit("medicare"), Lit("medicaid"), Lit("patient"),
        Lit("disease"), Lit("treatment"), Lit("therapy"),
        Lit("pharmaceutical"), Lit("drug"), Lit("nursing") >>],
    [category |-> "Non-profit", priority |-> 5, patterns |-> <<
        DotOrEnd(".org"), Lit("foundation"), Lit("fundacion"),
        Lit("ngo"), Lit("nonprofit"), Lit("non-profit"),
        Lit("charity"), Lit("charitable"), Lit("trust"),
        Lit("association"), Lit("society"), Lit("community"),
        Lit("humanitarian"), Lit("volunteer"), Lit("donation"),
        Lit("wwf"), Lit("greenpeace"), Lit("amnesty"),
        Lit("red-cross"), Lit("united-nations"), Lit("unesco") >>],
    [category |-> "Commercial", priority |-> 6, patterns |-> <<
        DotOrEnd(".com"), DotOrEnd(".io"), DotOrEnd(".biz"),
        Lit("enterprise"), Lit("company"), Lit("corporation"),
        Lit("ltd"), Lit("inc"), Lit("corp"), Lit("gmbh"), Lit("sarl"),
        Lit("business"), Lit("commercial"), Lit("market"),
        Lit("sales"), Lit("product"), Lit("service"),
        Lit("consulting"), Lit("solutions"), Lit("technologies") >>],
    [category |-> "Transportation", priority |-> 7, patterns |-> <<
        Lit("transport"), Lit("transit"), Lit("railway"), Lit("rail"),
        Lit("airport"), Lit("aviation"), Lit("traffic"),
        Lit("highway"), Lit("roads"), Lit("mobility"),
        Lit("logistics"), Lit("shipping"), Lit("freight"),
        Lit("metro"), Lit("subway"), Lit("bus"), Lit("ferry") >>],
    [category |-> "Environmental", priority |-> 8, patterns |-> <<
        Lit("environment"), Lit("environmental"), Lit("ecology"),
        Lit("climate"), Lit("weather"), Lit("meteorolog"),
        Lit("conservation"), Lit("wildlife"), Lit("nature"),
        Lit("sustainability"), Lit("renewable"), Lit("energy"),
        Lit("pollution"), Lit("emissions"), Lit("recycling"),
        Lit("biodiversity"), Lit("ecosystem"), Lit("forest") >>],
    [category |-> "Agriculture", priority |-> 9, patterns |-> <<
        Lit("agriculture"), Lit("agricultural"), Lit("farming"),
        Lit("farm"), Lit("crop"), Lit("livestock"), Lit("cattle"),
        Lit("fisheries"), Lit("aquaculture"), Lit("forestry"),
        Lit("food"), Lit("nutrition"), Lit("harvest"),
        Lit("irrigation"), Lit("soil"), Lit("seed") >>],
    [category |-> "Regional", priority |-> 10, patterns |-> <<
        Lit("regional"), Lit("local"), Lit("district"), Lit("county"),
        Lit("borough"), Lit("township"), Lit("parish"),
        Lit("metropolitan"), Lit("urban"), Lit("rural"),
        Lit("geographic"), Lit("spatial"), Lit("mapping"),
        Lit("cadastre"), Lit("territory"), Lit("zone") >> ] >>

(***************************************************************************)
(* Confidence values.  The code computes score / len(patterns) * 100 in    *)
(* floating point and mixes it with integer literals; the quotients are    *)
(* kept here as exact fractions num/den (den > 0).  Pattern lists hold at  *)
(* most 30 entries, so two quotients are equal, or ordered, as floats      *)
(* exactly when they are as fractions.                                     *)
(***************************************************************************)
Rat(n, d) == [num |-> n, den |-> d]
Whole(n) == Rat(n, 1)
Less(a, b) == a.num * b.den < b.num * a.den
Same(a, b) == a.num * b.den = b.num * a.den
AtLeast(a, n) == a.num >= n * a.den
AtMost(a, n) == a.num <= n * a.den

\* Python's max(a, b) and min(a, b): the first argument wins a tie
PyMax(a, b) == IF Less(a, b) THEN b ELSE a
PyMin(a, b) == IF Less(b, a) THEN b ELSE a

Result(t, c) == [site_type |-> t, confidence |-> Whole(c)]
Unknown == Result("Unknown", 0)

(***************************************************************************)
(* analyze_domain                                                          *)
(***************************************************************************)
\* the inner loop: score += 1 for every pattern that re.search finds
Score(config, domain) ==
    Cardinality({i \in 1..Len(config.patterns) : Search(config.patterns[i], domain)})

\* BoostedConfidence without the Government branch
BoostedConfidence_NoGovFloor(config, score, domain) ==
    LET base == PyMin(Rat(score * 100, Len(config.patterns)), Whole(100))
    IN  IF config.category = "Educational" /\ Search(DotOrEnd(".edu"), domain)
        THEN PyMax(base, Whole(90))
        ELSE IF config.category = "Non-profit" /\ Search(DotOrEnd(".org"), domain)
        THEN PyMax(base, Whole(70))
        ELSE base

\* BoostedConfidence without the Educational branch
BoostedConfidence_NoEduFloor(config, score, domain) ==
    LET base == PyMin(Rat(score * 100, Len(config.patterns)), Whole(100))
    IN  IF config.category = "Government" /\ Search(DotOrEnd(".gov"), domain)
        THEN PyMax(base, Whole(90))
        ELSE IF config.category = "Non-profit" /\ Search(DotOrEnd(".org"), domain)
        THEN PyMax(base, Whole(70))
        ELSE base

\* BoostedConfidence with the hits not divided by the number of patterns
BoostedConfidence_NotNormalized(config, score, domain) ==
    LET base == Rat(score * 100, 1)
    IN  IF config.category = "Government" /\ Search(DotOrEnd(".gov"), domain)
        THEN PyMax(base, Whole(90))
        ELSE IF config.category = "Educational" /\ Search(DotOrEnd(".edu"), domain)
        THEN PyMax(base, Whole(90))
        ELSE IF config.category = "Non-profit" /\ Search(DotOrEnd(".org"), domain)
        THEN PyMax(base, Whole(70))
        ELSE base

\* BoostedConfidence raising Non-profit to 90 instead of 70
BoostedConfidence_OrgFloor90(config, score, domain) ==
    LET base == PyMin(Rat(score * 100, Len(config.patterns)), Whole(100))
    IN  IF config.category = "Government" /\ Search(DotOrEnd(".gov"), domain)
        THEN PyMax(base, Whole(90))
        ELSE IF config.category = "Educational" /\ Search(DotOrEnd(".edu"), domain)
        THEN PyMax(base, Whole(90))
        ELSE IF config.category = "Non-profit" /\ Search(DotOrEnd(".org"), domain)
        THEN PyMax(base, Whole(90))
        ELSE base

\* confidence of a category with score > 0, with the exact-TLD boosts
BoostedConfidence(config, score, domain) ==
    LET base == PyMin(Rat(score * 100, Len(config.patterns)), Whole(100))
    IN  IF config.category = "Government" /\ Search(DotOrEnd(".gov"), domain)
        THEN PyMax(base, Whole(90))
        ELSE IF config.category = "Educational" /\ Search(DotOrEnd(".edu"), domain)
        THEN PyMax(base, Whole(90))
        ELSE IF config.category = "Non-profit" /\ Search(DotOrEnd(".org"), domain)
        THEN PyMax(base, Whole(70))
        ELSE base

Priority(category) ==
    LET i == CHOOSE j \in 1..Len(domain_patterns) : domain_patterns[j].category = category
    IN  domain_patterns[i].priority

\* the outer loop: matches, in the order of domain_patterns
RECURSIVE MatchesFrom(_, _)
MatchesFrom(i, domain) ==
    IF i > Len(domain_patterns) THEN <<>>
    ELSE LET config == domain_patterns[i]
             score == Score(config, domain)
         IN  IF score > 0
             THEN <<[category |-> config.category,
                     confidence |-> BoostedConfidence(config, score, domain)]>>
                  \o MatchesFrom(i + 1, domain)
             ELSE MatchesFrom(i + 1, domain)

\* KeyLess with the priority not negated
KeyLess_PriorityNotNegated(a, b) ==
    \/ Less(a.confidence, b.confidence)
    \/ /\ Same(a.confidence, b.confidence)
       /\ Priority(a.category) < Priority(b.category)

\* key=lambda x: (x[1], -priority): tuple comparison
KeyLess(a, b) ==
    \/ Less(a.confidence, b.confidence)
    \/ /\ Same(a.confidence, b.confidence)
       /\ (0 - Priority(a.category)) < (0 - Priority(b.category))

Remove(s, i) == SubSeq(s, 1, i - 1) \o SubSeq(s, i + 1, Len(s))

\* list.sort(key=..., reverse=True): descending by key, equal keys keep their order
RECURSIVE SortMatches(_)
SortMatches(s) ==
    IF s = <<>> THEN <<>>
    ELSE LET i == CHOOSE j \in 1..Len(s) :
                    /\ \A k \in 1..Len(s) : ~KeyLess(s[j], s[k])
                    /\ \A k \in 1..(j - 1) : KeyLess(s[k], s[j])
         IN  <<s[i]>> \o SortMatches(Remove(s, i))

analyze_domain(u) == SortMatches(MatchesFrom(1, Domain(u)))

(***************************************************************************)
(* The fallback heuristics.  Each takes the url and parses it again.       *)
(***************************************************************************)
\* any(keyword in domain for keyword in keywords)
AnyIn(keywords, domain) == \E k \in keywords : Contains(domain, k)

\* gov_country_patterns, in dict order: r'\.uk$' is the suffix ".uk"
gov_country_patterns == <<
    <<".uk", "Government", 60>>, <<".ca", "Government", 60>>,
    <<".au", "Government", 60>>, <<".nz", "Government", 60>>,
    <<".in", "Government", 55>>, <<".za", "Government", 55>>,
    <<".sg", "Government", 60>>, <<".my", "Government", 55>>,
    <<".jp", "Government", 50>>, <<".kr", "Government", 50>>,
    <<".cn", "Government", 60>>, <<".de", "Regional", 45>>,
    <<".fr", "Government", 50>>, <<".es", "Government", 50>>,
    <<".it", "Government", 50>>, <<".nl", "Government", 50>>,
    <<".be", "Government", 50>>, <<".ch", "Government", 50>>,
    <<".at", "Government", 50>>, <<".eu", "Government", 65>> >>

\* check_country_tld without min(confidence, 80)
check_country_tld_NoCap(u) ==
    LET domain == Domain(u)
        has_data_keyword ==
            AnyIn({"data", "datos", "donnees", "daten", "open", "portal"}, domain)
        hits == {i \in 1..Len(gov_country_patterns) :
                    EndsWith(domain, gov_country_patterns[i][1])}
    IN  IF hits = {} THEN Unknown
        ELSE LET e == gov_country_patterns[CHOOSE i \in hits : \A j \in hits : i <= j]
                 conf == IF has_data_keyword THEN e[3] + 20 ELSE e[3]
             IN  Result(e[2], conf)

check_country_tld(u) ==
    LET domain == Domain(u)
        has_data_keyword ==
            AnyIn({"data", "datos", "donnees", "daten", "open", "portal"}, domain)
        hits == {i \in 1..Len(gov_country_patterns) :
                    EndsWith(domain, gov_country_patterns[i][1])}
    IN  IF hits = {} THEN Unknown
        ELSE LET e == gov_country_patterns[CHOOSE i \in hits : \A j \in hits : i <= j]
                 conf == IF has_data_keyword THEN e[3] + 20 ELSE e[3]
             IN  Result(e[2], IF conf < 80 THEN conf ELSE 80)

\* subdomain_patterns, in dict order
subdomain_patterns == <<
    <<"data", "Government", 65>>, <<"opendata", "Government", 70>>,
    <<"datos", "Government", 70>>, <<"research", "Research", 75>>,
    <<"science", "Research", 70>>, <<"health", "Healthcare", 70>>,
    <<"transport", "Transportation", 75>>, <<"environment", "Environmental", 75>>,
    <<"education", "Educational", 70>>, <<"portal", "Government", 60>>,
    <<"geo", "Regional", 65>>, <<"maps", "Regional", 65>>,
    <<"statistics", "Government", 65>>, <<"census", "Government", 70>> >>

analyze_subdomain(u) ==
    LET domain == Domain(u)
        subdomain == FirstPart(domain)
        hits == {i \in 1..Len(subdomain_patterns) :
                    Contains(subdomain, subdomain_patterns[i][1])}
    IN  IF NumParts(domain) > 2 /\ hits # {}
        THEN LET e == subdomain_patterns[CHOOSE i \in hits : \A j \in hits : i <= j]
             IN  Result(e[2], e[3])
        ELSE Unknown

\* re.search(r'\d{2,}', domain)
HasDigitRun(s) ==
    \E i \in 1..(Len(s) - 1) : IsDigit(CharAt(s, i)) /\ IsDigit(CharAt(s, i + 1))

\* re.search(r'[a-z]{2}\d{2,}', domain)
HasLetterDigitCode(s) ==
    \E i \in 1..(Len(s) - 3) :
        /\ IsLower(CharAt(s, i)) /\ IsLower(CharAt(s, i + 1))
        /\ IsDigit(CharAt(s, i + 2)) /\ IsDigit(CharAt(s, i + 3))

\* check_data_portal_patterns testing 'research'/'science' before 'gov'/'public'
check_data_portal_patterns_ResearchFirst(u) ==
    LET domain == Domain(u)
    IN  IF AnyIn({"dataplatform", "dataportal", "openplatform"}, domain)
        THEN IF Contains(domain, "research") \/ Contains(domain, "science")
             THEN Result("Research", 65)
             ELSE IF Contains(domain, "gov") \/ Contains(domain, "public")
             THEN Result("Government", 65)
             ELSE Result("Regional", 55)
        ELSE IF HasDigitRun(domain) \/ HasLetterDigitCode(domain)
        THEN Result("Regional", 50)
        ELSE Unknown

check_data_portal_patterns(u) ==
    LET domain == Domain(u)
    IN  IF AnyIn({"dataplatform", "dataportal", "openplatform"}, domain)
        THEN IF Contains(domain, "gov") \/ Contains(domain, "public")
             THEN Result("Government", 65)
             ELSE IF Contains(domain, "research") \/ Contains(domain, "science")
             THEN Result("Research", 65)
             ELSE Result("Regional", 55)
        ELSE IF HasDigitRun(domain) \/ HasLetterDigitCode(domain)
        THEN Result("Regional", 50)
        ELSE Unknown

\* re.search(r'[a-z]+-[a-z]+', domain)
HasHyphenated(s) ==
    \E i \in 2..(Len(s) - 1) :
        IsLower(CharAt(s, i - 1)) /\ CharAt(s, i) = "-" /\ IsLower(CharAt(s, i + 1))

\* re.search(r'[a-z]+\.[a-z]+-[a-z]+', domain)
HasDotHyphenated(s) ==
    \E i \in 2..(Len(s) - 3) : \E j \in (i + 2)..(Len(s) - 1) :
        /\ IsLower(CharAt(s, i - 1)) /\ CharAt(s, i) = "."
        /\ \A k \in (i + 1)..(j - 1) : IsLower(CharAt(s, k))
        /\ CharAt(s, j) = "-" /\ IsLower(CharAt(s, j + 1))

\* statistical_classification testing the hyphen before the number of labels
statistical_classification_HyphenFirst(u) ==
    LET domain == Domain(u)
        parts == NumParts(domain)
    IN  IF parts = 2 /\ AnyIn({"data", "open"}, domain)
        THEN Result("Government", 55)
        ELSE IF HasHyphenated(domain) \/ HasDotHyphenated(domain)
        THEN Result("Regional", 55)
        ELSE IF parts >= 4
        THEN IF AnyIn({"univ", "edu", "acad"}, domain)
             THEN Result("Educational", 60)
             ELSE Result("Government", 50)
        ELSE Unknown

statistical_classification(u) ==
    LET domain == Domain(u)
        parts == NumParts(domain)
    IN  IF parts = 2 /\ AnyIn({"data", "open"}, domain)
        THEN Result("Government", 55)
        ELSE IF parts >= 4
        THEN IF AnyIn({"univ", "edu", "acad"}, domain)
             THEN Result("Educational", 60)
             ELSE Result("Government", 50)
        ELSE IF HasHyphenated(domain) \/ HasDotHyphenated(domain)
        THEN Result("Regional", 55)
        ELSE Unknown

\* default_classification ending in ("Unknown", 0)
default_classification_EndsUnknown(u) ==
    LET domain == Domain(u)
    IN  IF Contains(domain, "data") \/ Contains(domain, "datos")
           \/ Contains(domain, "donnees")
        THEN Result("Government", 45)
        ELSE IF EndsWith(domain, ".org")
        THEN Result("Non-profit", 45)
        ELSE IF EndsWith(domain, ".com") \/ EndsWith(domain, ".io")
        THEN IF AnyIn({"map", "geo", "city", "region", "local"}, domain)
             THEN Result("Regional", 45)
             ELSE Result("Commercial", 40)
        ELSE Unknown

\* default_classification testing the .org ending before the data keyword
default_classification_OrgFirst(u) ==
    LET domain == Domain(u)
    IN  IF EndsWith(domain, ".org")
        THEN Result("Non-profit", 45)
        ELSE IF Contains(domain, "data") \/ Contains(domain, "datos")
           \/ Contains(domain, "donnees")
        THEN Result("Government", 45)
        ELSE IF EndsWith(domain, ".com") \/ EndsWith(domain, ".io")
        THEN IF AnyIn({"map", "geo", "city", "region", "local"}, domain)
             THEN Result("Regional", 45)
             ELSE Result("Commercial", 40)
        ELSE Result("Regional", 40)

default_classification(u) ==
    LET domain == Domain(u)
    IN  IF Contains(domain, "data") \/ Contains(domain, "datos")
           \/ Contains(domain, "donnees")
        THEN Result("Government", 45)
        ELSE IF EndsWith(domain, ".org")
        THEN Result("Non-profit", 45)
        ELSE IF EndsWith(domain, ".com") \/ EndsWith(domain, ".io")
        THEN IF AnyIn({"map", "geo", "city", "region", "local"}, domain)
             THEN Result("Regional", 45)
             ELSE Result("Commercial", 40)
        ELSE Result("Regional", 40)

(***************************************************************************)
(* The fallback methods called on their own                                *)
(***************************************************************************)
\* one call of a fallback method: urlparse(url) may raise, otherwise the
\* method returns its (site_type, confidence)
HeurCall(method, r) ==
    /\ hcall.kind = "call"
    /\ hcall.pc = "called"
    /\ hcall.method = method
    /\ hcall' = IF UrlparseRaises(hcall.url)
                THEN [hcall EXCEPT !.pc = "raised"]
                ELSE [hcall EXCEPT !.pc = "returned", !.result = r]
    /\ UNCHANGED <<classifyVars, regionVars, siteVars, concVars>>

CallCheckCountryTld == HeurCall("check_country_tld", check_country_tld(hcall.url))
CallAnalyzeSubdomain == HeurCall("analyze_subdomain", analyze_subdomain(hcall.url))
CallCheckDataPortalPatterns ==
    HeurCall("check_data_portal_patterns", check_data_portal_patterns(hcall.url))
CallStatisticalClassification ==
    HeurCall("statistical_classification", statistical_classification(hcall.url))
CallDefaultClassification ==
    HeurCall("default_classification", default_classification(hcall.url))

(***************************************************************************)
(* get_site_type                                                           *)
(***************************************************************************)
\* combined_scores[category] = score: a dict keeps the position of a key it
\* already holds and appends a new one
RECURSIVE DictSet(_, _, _)
DictSet(items, k, v) ==
    IF items = <<>> THEN <<[category |-> k, confidence |-> v]>>
    ELSE IF items[1].category = k
    THEN <<[category |-> k, confidence |-> v]>> \o Tail(items)
    ELSE <<items[1]>> \o DictSet(Tail(items), k, v)

RECURSIVE CombinedScores(_)
CombinedScores(matches) ==
    IF matches = <<>> THEN <<>>
    ELSE LET m == matches[Len(matches)]
         IN  DictSet(CombinedScores(SubSeq(matches, 1, Len(matches) - 1)),
                     m.category, m.confidence)

\* BestCategory taking the first item that exceeds no item
BestCategory_Lowest(items) ==
    items[CHOOSE i \in 1..Len(items) :
            /\ \A k \in 1..Len(items) : ~Less(items[k].confidence, items[i].confidence)
            /\ \A k \in 1..(i - 1) : Less(items[i].confidence, items[k].confidence)]

\* max(combined_scores.items(), key=lambda x: x[1]): the first item, in the
\* dict's order, that no item exceeds
BestCategory(items) ==
    items[CHOOSE i \in 1..Len(items) :
            /\ \A k \in 1..Len(items) : ~Less(items[i].confidence, items[k].confidence)
            /\ \A k \in 1..(i - 1) : Less(items[k].confidence, items[i].confidence)]

\* Top3 without the cut
Top3_Uncut(matches) == matches

\* domain_matches[:3]
Top3(matches) == SubSeq(matches, 1, IF Len(matches) < 3 THEN Len(matches) ELSE 3)

NoMetadata == [kind |-> "none"]

\* try: domain_matches = self.analyze_domain(url); urlparse may raise there
AnalyzeDomain ==
    /\ pc = "analyze"
    /\ IF UrlparseRaises(url)
       THEN pc' = "except" /\ UNCHANGED domain_matches
       ELSE pc' = "select" /\ domain_matches' = analyze_domain(url)
    /\ UNCHANGED <<url, site_type, confidence, metadata, resolved_by>>
    /\ UNCHANGED <<regionVars, siteVars, concVars, heurVars>>

\* SelectBest entering the fallback chain also on a confidence below 50
SelectBest_FallbackOnLowConfidence ==
    /\ pc = "select"
    /\ LET combined_scores == CombinedScores(domain_matches)
       IN  IF combined_scores # <<>>
           THEN LET best_category == BestCategory(combined_scores)
                IN  /\ site_type' = best_category.category
                    /\ confidence' = PyMin(best_category.confidence, Whole(100))
                    /\ resolved_by' = "primary"
           ELSE /\ site_type' = "Unknown"
                /\ confidence' = Whole(0)
                /\ UNCHANGED resolved_by
    /\ pc' = IF site_type' = "Unknown" \/ Less(confidence', Whole(50))
             THEN "country_tld" ELSE "metadata"
    /\ UNCHANGED <<url, domain_matches, metadata>>
    /\ UNCHANGED <<regionVars, siteVars, concVars, heurVars>>

\* the best match, or "Unknown"; an Unknown site_type enters the fallback chain
SelectBest ==
    /\ pc = "select"
    /\ LET combined_scores == CombinedScores(domain_matches)
       IN  IF combined_scores # <<>>
           THEN LET best_category == BestCategory(combined_scores)
                IN  /\ site_type' = best_category.category
                    /\ confidence' = PyMin(best_category.confidence, Whole(100))
                    /\ resolved_by' = "primary"
           ELSE /\ site_type' = "Unknown"
                /\ confidence' = Whole(0)
                /\ UNCHANGED resolved_by
    /\ pc' = IF site_type' = "Unknown" THEN "country_tld" ELSE "metadata"
    /\ UNCHANGED <<url, domain_matches, metadata>>
    /\ UNCHANGED <<regionVars, siteVars, concVars, heurVars>>

\* FallbackStep that keeps a result but goes on to the next method
FallbackStep_NoReturn(here, r, next) ==
    /\ pc = here
    /\ IF r.site_type # "Unknown"
       THEN /\ site_type' = r.site_type
            /\ confidence' = r.confidence
            /\ resolved_by' = here
       ELSE UNCHANGED <<site_type, confidence, resolved_by>>
    /\ pc' = next
    /\ UNCHANGED <<url, domain_matches, metadata>>
    /\ UNCHANGED <<regionVars, siteVars, concVars, heurVars>>

\* one method of apply_fallback_methods: return its result unless it is Unknown
FallbackStep(here, r, next) ==
    /\ pc = here
    /\ IF r.site_type # "Unknown"
       THEN /\ site_type' = r.site_type
            /\ confidence' = r.confidence
            /\ resolved_by' = here
            /\ pc' = "metadata"
       ELSE /\ pc' = next
            /\ UNCHANGED <<site_type, confidence, resolved_by>>
    /\ UNCHANGED <<url, domain_matches, metadata>>
    /\ UNCHANGED <<regionVars, siteVars, concVars, heurVars>>

Method1CountryTld == FallbackStep("country_tld", check_country_tld(url), "subdomain")
Method2Subdomain == FallbackStep("subdomain", analyze_subdomain(url), "data_portal")
Method3DataPortal ==
    FallbackStep("data_portal", check_data_portal_patterns(url), "statistical")
Method4Statistical ==
    FallbackStep("statistical", statistical_classification(url), "default")

\* Method 5 is returned whatever it is
Method5Default ==
    /\ pc = "default"
    /\ LET r == default_classification(url)
       IN  /\ site_type' = r.site_type
           /\ confidence' = r.confidence
    /\ resolved_by' = "default"
    /\ pc' = "metadata"
    /\ UNCHANGED <<url, domain_matches, metadata>>
    /\ UNCHANGED <<regionVars, siteVars, concVars, heurVars>>

\* metadata = {...}; return site_type, confidence, metadata
ReturnResult ==
    /\ pc = "metadata"
    /\ metadata' = [kind |-> "evidence", domain |-> Netloc(url),
                    domain_matches |-> Top3(domain_matches)]
    /\ pc' = "returned"
    /\ UNCHANGED <<url, domain_matches, site_type, confidence, resolved_by>>
    /\ UNCHANGED <<regionVars, siteVars, concVars, heurVars>>

\* no except clause: the exception leaves get_site_type
HandleException_Propagates ==
    /\ pc = "except"
    /\ pc' = "raised"
    /\ UNCHANGED <<url, domain_matches, site_type, confidence, metadata, resolved_by>>
    /\ UNCHANGED <<regionVars, siteVars, concVars, heurVars>>

\* except Exception as e: return "Regional", 30, {'error': str(e)}
HandleException ==
    /\ pc = "except"
    /\ site_type' = "Regional"
    /\ confidence' = Whole(30)
    /\ metadata' = [kind |-> "error", error |-> "Invalid IPv6 URL"]
    /\ resolved_by' = "except"
    /\ pc' = "returned"
    /\ UNCHANGED <<url, domain_matches>>
    /\ UNCHANGED <<regionVars, siteVars, concVars, heurVars>>

(***************************************************************************)
(* normalize_region                                                        *)
(***************************************************************************)
\* the argument: a str, or None
PyStr(s) == [type |-> "str", value |-> s]
PyNone == [type |-> "NoneType"]

IsSpace(c) == c \in {" ", "\t", "\n", "\r"}

RECURSIVE LStrip(_)
LStrip(s) ==
    IF s # "" /\ IsSpace(CharAt(s, 1)) THEN LStrip(SubSeq(s, 2, Len(s))) ELSE s

RECURSIVE RStrip(_)
RStrip(s) ==
    IF s # "" /\ IsSpace(CharAt(s, Len(s))) THEN RStrip(SubSeq(s, 1, Len(s) - 1)) ELSE s

\* s.strip()
Strip(s) == RStrip(LStrip(s))

\* region_mappings, in dict order
region_mappings == <<
    <<"latin america", "Latin America & Caribbean">>,
    <<"south america", "Latin America & Caribbean">>,
    <<"central america", "Latin America & Caribbean">>,
    <<"caribbean", "Latin America & Caribbean">>,
    <<"sub-saharan africa", "Sub-Saharan Africa">>,
    <<"southern africa", "Sub-Saharan Africa">>,
    <<"central africa", "Sub-Saharan Africa">>,
    <<"east africa", "Sub-Saharan Africa">>,
    <<"west africa", "Sub-Saharan Africa">>,
    <<"europe", "Europe">>,
    <<"western europe", "Europe">>,
    <<"eastern europe", "Europe">>,
    <<"northern europe", "Europe">>,
    <<"southern europe", "Europe">>,
    <<"eu", "Europe">>,
    <<"asia-pacific", "Asia-Pacific">>,
    <<"asia pacific", "Asia-Pacific">>,
    <<"east asia", "Asia-Pacific">>,
    <<"southeast asia", "Asia-Pacific">>,
    <<"south asia", "Asia-Pacific">>,
    <<"oceania", "Asia-Pacific">>,
    <<"pacific", "Asia-Pacific">>,
    <<"australasia", "Asia-Pacific">>,
    <<"north africa", "North Africa & Middle East">>,
    <<"middle east", "North Africa & Middle East">>,
    <<"mena", "North Africa & Middle East">>,
    <<"central asia", "Central Asia">> >>

allowed_regions == <<
    "North America",
    "Latin America & Caribbean",
    "Sub-Saharan Africa",
    "Europe",
    "Asia-Pacific",
    "North Africa & Middle East",
    "Central Asia",
    "Global / Uncertain" >>

\* country_region_map, in dict order; no statement of normalize_region reads it
country_region_map == <<
    <<"united states", "North America">>,
    <<"canada", "North America">>,
    <<"mexico", "Latin America & Caribbean">>,
    <<"brazil", "Latin America & Caribbean">>,
    <<"argentina", "Latin America & Caribbean">>,
    <<"colombia", "Latin America & Caribbean">>,
    <<"chile", "Latin America & Caribbean">>,
    <<"peru", "Latin America & Caribbean">>,
    <<"united kingdom", "Europe">>,
    <<"france", "Europe">>,
    <<"germany", "Europe">>,
    <<"italy", "Europe">>,
    <<"spain", "Europe">>,
    <<"china", "Asia-Pacific">>,
    <<"japan", "Asia-Pacific">>,
    <<"india", "Asia-Pacific">>,
    <<"australia", "Asia-Pacific">>,
    <<"new zealand", "Asia-Pacific">>,
    <<"indonesia", "Asia-Pacific">>,
    <<"egypt", "North Africa & Middle East">>,
    <<"saudi arabia", "North Africa & Middle East">>,
    <<"israel", "North Africa & Middle East">>,
    <<"south africa", "Sub-Saharan Africa">>,
    <<"nigeria", "Sub-Saharan Africa">>,
    <<"kenya", "Sub-Saharan Africa">>,
    <<"kazakhstan", "Central Asia">>,
    <<"uzbekistan", "Central Asia">> >>

\* x in a_list
InList(x, list) == \E i \in 1..Len(list) : list[i] = x

\* normalize_region returning the text it could not map
normalize_region_NoSentinel(r) ==
    LET stripped == IF r.type = "str" /\ r.value # "" THEN Strip(r.value) ELSE ""
        region_lower == Lower(stripped)
        hits == {i \in 1..Len(region_mappings) :
                    Contains(region_lower, region_mappings[i][1])}
    IN  IF InList(stripped, allowed_regions)
        THEN stripped
        ELSE IF hits # {}
        THEN region_mappings[CHOOSE i \in hits : \A j \in hits : i <= j][2]
        ELSE stripped

\* normalize_region without the exact-match tier
normalize_region_NoExactTier(r) ==
    LET stripped == IF r.type = "str" /\ r.value # "" THEN Strip(r.value) ELSE ""
        region_lower == Lower(stripped)
        hits == {i \in 1..Len(region_mappings) :
                    Contains(region_lower, region_mappings[i][1])}
    IN  IF hits # {}
        THEN region_mappings[CHOOSE i \in hits : \A j \in hits : i <= j][2]
        ELSE "Global / Uncertain"

\* normalize_region keeping the last key of the table found in the text
normalize_region_LastKeyWins(r) ==
    LET stripped == IF r.type = "str" /\ r.value # "" THEN Strip(r.value) ELSE ""
        region_lower == Lower(stripped)
        hits == {i \in 1..Len(region_mappings) :
                    Contains(region_lower, region_mappings[i][1])}
    IN  IF InList(stripped, allowed_regions)
        THEN stripped
        ELSE IF hits # {}
        THEN region_mappings[CHOOSE i \in hits : \A j \in hits : i >= j][2]
        ELSE "Global / Uncertain"

\* normalize_region reading country_region_map before the sentinel
normalize_region_WithCountryTier(r) ==
    LET stripped == IF r.type = "str" /\ r.value # "" THEN Strip(r.value) ELSE ""
        region_lower == Lower(stripped)
        hits == {i \in 1..Len(region_mappings) :
                    Contains(region_lower, region_mappings[i][1])}
        countries == {i \in 1..Len(country_region_map) :
                         Contains(region_lower, country_region_map[i][1])}
    IN  IF InList(stripped, allowed_regions)
        THEN stripped
        ELSE IF hits # {}
        THEN region_mappings[CHOOSE i \in hits : \A j \in hits : i <= j][2]
        ELSE IF countries # {}
        THEN country_region_map[CHOOSE i \in countries :
                                    \A j \in countries : i <= j][2]
        ELSE "Global / Uncertain"

\* normalize_region returning an empty text when no tier matches
normalize_region_EmptyOnNoMatch(r) ==
    LET stripped == IF r.type = "str" /\ r.value # "" THEN Strip(r.value) ELSE ""
        region_lower == Lower(stripped)
        hits == {i \in 1..Len(region_mappings) :
                    Contains(region_lower, region_mappings[i][1])}
    IN  IF InList(stripped, allowed_regions)
        THEN stripped
        ELSE IF hits # {}
        THEN region_mappings[CHOOSE i \in hits : \A j \in hits : i <= j][2]
        ELSE ""

normalize_region(r) ==
    LET stripped == IF r.type = "str" /\ r.value # "" THEN Strip(r.value) ELSE ""
        region_lower == Lower(stripped)
        hits == {i \in 1..Len(region_mappings) :
                    Contains(region_lower, region_mappings[i][1])}
    IN  IF InList(stripped, allowed_regions)
        THEN stripped
        ELSE IF hits # {}
        THEN region_mappings[CHOOSE i \in hits : \A j \in hits : i <= j][2]
        ELSE "Global / Uncertain"

\* a call of normalize_region
Normalize ==
    /\ rpc = "call"
    /\ region_out' = normalize_region(region)
    /\ rpc' = "returned"
    /\ UNCHANGED <<region, region_again>>
    /\ UNCHANGED <<classifyVars, siteVars, concVars, heurVars>>

\* the returned value normalized once more
NormalizeAgain ==
    /\ rpc = "returned"
    /\ region_again' = normalize_region(PyStr(region_out))
    /\ rpc' = "again"
    /\ UNCHANGED <<region, region_out>>
    /\ UNCHANGED <<classifyVars, siteVars, concVars, heurVars>>

(***************************************************************************)
(* parse_llm_response, get_llm_response and process_site.  A Python value  *)
(* is a record with its type and value; a dict is a function on its keys.  *)
(***************************************************************************)
PyList(items) == [type |-> "list", value |-> items]
PyDict(d) == [type |-> "dict", value |-> d]
NaN == [type |-> "float", value |-> "nan"]

\* bool(v)
Truthy(v) ==
    CASE v.type = "str" -> v.value # ""
      [] v.type = "NoneType" -> FALSE
      [] v.type = "list" -> v.value # <<>>
      [] OTHER -> TRUE

\* pd.isna(v) or v == ""
IsBlank(v) == v = NaN \/ v = PyNone \/ v = PyStr("")

\* d.get(k, default)
Get(d, k, default) == IF k \in DOMAIN d THEN d[k] ELSE default

\* region.strip() on a value that is not a str: AttributeError
NormalizeRaises(r) == r.type \notin {"str", "NoneType"} /\ Truthy(r)

\* the first position >= from at which t starts in s; 0 when there is none
IndexFrom(s, t, from) ==
    LET at == {i \in from..(Len(s) - Len(t) + 1) : SubSeq(s, i, i + Len(t) - 1) = t}
    IN  IF at = {} THEN 0 ELSE CHOOSE i \in at : \A j \in at : i <= j

\* re.search(start(.*?)end, text, re.DOTALL): the leftmost start marker and the
\* first end marker after it
extract_content_between_markers(text, start_marker, end_marker, default_value) ==
    IF text = "" THEN default_value
    ELSE LET b == IndexFrom(text, start_marker, 1)
             e == IF b = 0 THEN 0
                  ELSE IndexFrom(text, end_marker, b + Len(start_marker))
         IN  IF e = 0 THEN default_value
             ELSE Strip(SubSeq(text, b + Len(start_marker), e - 1))

\* the dict of the outer except branch of parse_llm_response
ParseFailed ==
    [location |-> PyStr(""), region |-> PyStr("Global / Uncertain"),
     place |-> PyStr(""), country |-> PyStr("")]

\* parse_llm_response storing the region text as the model gave it
parse_llm_response_RegionNotNormalized(content) ==
    LET json_data == content.json
    IN  IF /\ json_data.kind = "value"
           /\ json_data.value.type = "dict"
           /\ "location" \in DOMAIN json_data.value.value
        THEN LET d == json_data.value.value
                 r == Get(d, "region", PyStr(""))
             IN  IF NormalizeRaises(r) THEN ParseFailed
                 ELSE [k \in (DOMAIN d \cup {"region"}) \ {"latitude", "longitude"} |->
                          IF k = "region" THEN r ELSE d[k]]
        ELSE LET text == content.text
             IN  [location |-> PyStr(extract_content_between_markers(
                                        text, "<LOCATION>", "</LOCATION>", "")),
                  region |-> PyStr(extract_content_between_markers(
                                        text, "<REGION>", "</REGION>", "")),
                  place |-> PyStr(extract_content_between_markers(
                                        text, "<PLACE>", "</PLACE>", "")),
                  country |-> PyStr(extract_content_between_markers(
                                        text, "<COUNTRY>", "</COUNTRY>", ""))]

\* content.json is what json.loads(content.text) gives: a value, or
\* JSONDecodeError
parse_llm_response(content) ==
    LET json_data == content.json
    IN  IF /\ json_data.kind = "value"
           /\ json_data.value.type = "dict"
           /\ "location" \in DOMAIN json_data.value.value
        THEN LET d == json_data.value.value
                 r == Get(d, "region", PyStr(""))
             IN  IF NormalizeRaises(r) THEN ParseFailed
                 ELSE [k \in (DOMAIN d \cup {"region"}) \ {"latitude", "longitude"} |->
                          IF k = "region" THEN PyStr(normalize_region(r)) ELSE d[k]]
        ELSE LET text == content.text
             IN  [location |-> PyStr(extract_content_between_markers(
                                        text, "<LOCATION>", "</LOCATION>", "")),
                  region |-> PyStr(normalize_region(PyStr(
                                extract_content_between_markers(
                                        text, "<REGION>", "</REGION>", "")))),
                  place |-> PyStr(extract_content_between_markers(
                                        text, "<PLACE>", "</PLACE>", "")),
                  country |-> PyStr(extract_content_between_markers(
                                        text, "<COUNTRY>", "</COUNTRY>", ""))]

MAX_RETRIES == 3

\* the record get_llm_response returns with an error
EmptyRecord ==
    [location |-> PyStr(""), region |-> PyStr(""), place |-> PyStr(""),
     country |-> PyStr(""), latitude |-> PyStr(""), longitude |-> PyStr("")]

NoData == [kind |-> "none"]

\* f"Attempt {attempt+1}/{max_retries} failed: {str(e)}"
ErrorMsg(n, e) ==
    "Attempt " \o ToString(n + 1) \o "/" \o ToString(max_retries) \o " failed: " \o e

\* 2 ** n
RECURSIVE Pow2(_)
Pow2(n) == IF n = 0 THEN 1 ELSE 2 * Pow2(n - 1)

\* entry of process_site: a row without url, name and description is answered
\* at once; otherwise get_llm_response is called with max_retries=MAX_RETRIES
ProcessSiteStart ==
    /\ spc = "start"
    /\ IF /\ IsBlank(row.url) /\ IsBlank(row.name)
          /\ IsBlank(row.detailed_description)
       THEN /\ out_row' = [location |-> PyStr(""),
                           region |-> PyStr("Global / Uncertain"),
                           place |-> PyStr(""), country |-> PyStr(""),
                           error |-> PyStr("No data available")]
            /\ spc' = "returned"
            /\ UNCHANGED max_retries
       ELSE /\ max_retries' = MAX_RETRIES
            /\ spc' = "llm_entry"
            /\ UNCHANGED out_row
    /\ UNCHANGED <<row, attempt, location_data, llm, sleeps, tries>>
    /\ UNCHANGED <<classifyVars, regionVars, concVars, heurVars>>

\* entry of get_llm_response: for attempt in range(max_retries); an empty
\* range falls through to the last return
GetLlmResponseEntry ==
    /\ spc = "llm_entry"
    /\ IF 0 < max_retries
       THEN spc' = "attempt" /\ UNCHANGED llm
       ELSE /\ llm' = [result |-> EmptyRecord, error |-> PyStr("Unknown error")]
            /\ spc' = "llm_returned"
    /\ UNCHANGED <<row, attempt, location_data, out_row, sleeps, max_retries, tries>>
    /\ UNCHANGED <<classifyVars, regionVars, concVars, heurVars>>

\* AttemptFailed sleeping before it looks at the number of the attempt
AttemptFailed_SleepsFirst(e) ==
    /\ tries' = Append(tries, "failed")
    /\ sleeps' = Append(sleeps, Pow2(attempt))
    /\ IF attempt = max_retries - 1
       THEN /\ llm' = [result |-> EmptyRecord, error |-> PyStr(ErrorMsg(attempt, e))]
            /\ spc' = "llm_returned"
            /\ UNCHANGED attempt
       ELSE /\ attempt' = attempt + 1
            /\ spc' = "attempt"
            /\ UNCHANGED llm

\* the except branch of the loop body, for a handled exception e
AttemptFailed(e) ==
    /\ tries' = Append(tries, "failed")
    /\ IF attempt = max_retries - 1
       THEN /\ llm' = [result |-> EmptyRecord, error |-> PyStr(ErrorMsg(attempt, e))]
            /\ spc' = "llm_returned"
            /\ UNCHANGED <<attempt, sleeps>>
       ELSE /\ sleeps' = Append(sleeps, Pow2(attempt))
            /\ attempt' = attempt + 1
            /\ spc' = "attempt"
            /\ UNCHANGED llm

\* one pass of the loop of get_llm_response on the outcome o of the API call
Attempt(o) ==
    /\ spc = "attempt"
    /\ CASE o.kind = "content" ->
              LET data == parse_llm_response(o.content)
              IN  /\ location_data' = data
                  /\ IF /\ ~Truthy(Get(data, "country", PyNone))
                        /\ ~Truthy(Get(data, "place", PyNone))
                     THEN AttemptFailed("No location information generated")
                     ELSE /\ llm' = [result |-> data, error |-> PyNone]
                          /\ spc' = "llm_returned"
                          /\ tries' = Append(tries, "returned")
                          /\ UNCHANGED <<attempt, sleeps>>
         [] o.kind \in {"RequestException", "KeyError"} ->
              /\ AttemptFailed(o.message)
              /\ UNCHANGED location_data
         [] OTHER ->
              /\ spc' = "raised"
              /\ tries' = Append(tries, "raised")
              /\ UNCHANGED <<attempt, location_data, llm, sleeps>>
    /\ UNCHANGED <<row, out_row, max_retries>>
    /\ UNCHANGED <<classifyVars, regionVars, concVars, heurVars>>

\* PrepareResult writing the result's region into the row also on an error
PrepareResult_RegionOnError ==
    /\ spc = "llm_returned"
    /\ IF Truthy(llm.error)
       THEN out_row' = [location |-> PyStr(""),
                        region |-> Get(llm.result, "region", PyStr("Global / Uncertain")),
                        place |-> PyStr(""), country |-> PyStr(""),
                        error |-> llm.error]
       ELSE out_row' = [location |-> Get(llm.result, "location", PyStr("")),
                        region |-> Get(llm.result, "region", PyStr("Global / Uncertain")),
                        place |-> Get(llm.result, "place", PyStr("")),
                        country |-> Get(llm.result, "country", PyStr("")),
                        error |-> PyStr("")]
    /\ spc' = "returned"
    /\ UNCHANGED <<row, attempt, location_data, llm, sleeps, max_retries, tries>>
    /\ UNCHANGED <<classifyVars, regionVars, concVars, heurVars>>

\* process_site after get_llm_response: the dict for the output row
PrepareResult ==
    /\ spc = "llm_returned"
    /\ IF Truthy(llm.error)
       THEN out_row' = [location |-> PyStr(""),
                        region |-> PyStr("Global / Uncertain"),
                        place |-> PyStr(""), country |-> PyStr(""),
                        error |-> llm.error]
       ELSE out_row' = [location |-> Get(llm.result, "location", PyStr("")),
                        region |-> Get(llm.result, "region", PyStr("Global / Uncertain")),
                        place |-> Get(llm.result, "place", PyStr("")),
                        country |-> Get(llm.result, "country", PyStr("")),
                        error |-> PyStr("")]
    /\ spc' = "returned"
    /\ UNCHANGED <<row, attempt, location_data, llm, sleeps, max_retries, tries>>
    /\ UNCHANGED <<classifyVars, regionVars, concVars, heurVars>>

(***************************************************************************)
(* Concurrent calls.  Each worker runs one call of get_site_type (on the   *)
(* detector they share) or of normalize_region; calls[w] holds the call's  *)
(* arguments and locals.  A step of get_site_type is one statement of its  *)
(* body; normalize_region builds its tables anew in each call and is one   *)
(* step.  overlapped records that the worker ran while another worker was  *)
(* inside get_site_type.                                                   *)
(***************************************************************************)
NumWorkers == 2

Workers == 1..NumWorkers

\* another worker is between the first and the last statement of its call
OthersRunning(w) ==
    \E v \in Workers \ {w} : calls[v].pc \notin {"analyze", "call", "returned"}

\* worker w goes on with the locals new; nothing of the detector is written
LocalStep(w, new) ==
    /\ calls' = [calls EXCEPT ![w] =
                    [new EXCEPT !.overlapped = calls[w].overlapped \/ OthersRunning(w)]]
    /\ UNCHANGED self_domain_patterns
    /\ UNCHANGED <<classifyVars, regionVars, siteVars, heurVars>>

\* ConcAnalyze keeping the matches in an attribute of the detector, which
\* every worker reads
ConcAnalyze_SharedMatches(w) ==
    /\ calls[w].op = "get_site_type"
    /\ calls[w].pc = "analyze"
    /\ IF UrlparseRaises(calls[w].arg.value)
       THEN calls' = [calls EXCEPT ![w].pc = "except"]
       ELSE calls' = [v \in Workers |->
                        IF v = w
                        THEN [calls[w] EXCEPT
                                !.pc = "select",
                                !.domain_matches = analyze_domain(calls[w].arg.value),
                                !.overlapped = calls[w].overlapped \/ OthersRunning(w)]
                        ELSE [calls[v] EXCEPT
                                !.domain_matches = analyze_domain(calls[w].arg.value)]]
    /\ UNCHANGED self_domain_patterns
    /\ UNCHANGED <<classifyVars, regionVars, siteVars, heurVars>>

\* domain_matches = self.analyze_domain(url)
ConcAnalyze(w) ==
    /\ calls[w].op = "get_site_type"
    /\ calls[w].pc = "analyze"
    /\ IF UrlparseRaises(calls[w].arg.value)
       THEN LocalStep(w, [calls[w] EXCEPT !.pc = "except"])
       ELSE LocalStep(w, [calls[w] EXCEPT
                            !.pc = "select",
                            !.domain_matches = analyze_domain(calls[w].arg.value)])

\* the best match, or "Unknown" and the fallback chain
ConcSelect(w) ==
    /\ calls[w].op = "get_site_type"
    /\ calls[w].pc = "select"
    /\ LET combined_scores == CombinedScores(calls[w].domain_matches)
       IN  IF combined_scores # <<>>
           THEN LET best_category == BestCategory(combined_scores)
                IN  LocalStep(w, [calls[w] EXCEPT
                        !.site_type = best_category.category,
                        !.confidence = PyMin(best_category.confidence, Whole(100)),
                        !.pc = "metadata"])
           ELSE LocalStep(w, [calls[w] EXCEPT
                        !.site_type = "Unknown",
                        !.confidence = Whole(0),
                        !.pc = "country_tld"])

\* the methods of apply_fallback_methods and the position after each
ConcMethods(u) ==
    [country_tld |-> [r |-> check_country_tld(u), next |-> "subdomain"],
     subdomain |-> [r |-> analyze_subdomain(u), next |-> "data_portal"],
     data_portal |-> [r |-> check_data_portal_patterns(u), next |-> "statistical"],
     statistical |-> [r |-> statistical_classification(u), next |-> "default"],
     default |-> [r |-> default_classification(u), next |-> "metadata"]]

\* one method of apply_fallback_methods; Method 5 is returned whatever it is
ConcFallback(w) ==
    /\ calls[w].op = "get_site_type"
    /\ calls[w].pc \in {"country_tld", "subdomain", "data_portal", "statistical", "default"}
    /\ LET m == ConcMethods(calls[w].arg.value)[calls[w].pc]
       IN  IF m.r.site_type # "Unknown" \/ calls[w].pc = "default"
           THEN LocalStep(w, [calls[w] EXCEPT
                    !.site_type = m.r.site_type,
                    !.confidence = m.r.confidence,
                    !.pc = "metadata"])
           ELSE LocalStep(w, [calls[w] EXCEPT !.pc = m.next])

\* return site_type, confidence, metadata
ConcReturn(w) ==
    /\ calls[w].op = "get_site_type"
    /\ calls[w].pc = "metadata"
    /\ LocalStep(w, [calls[w] EXCEPT
            !.result = [site_type |-> calls[w].site_type,
                        confidence |-> calls[w].confidence],
            !.pc = "returned"])

\* except Exception as e: return "Regional", 30, {'error': str(e)}
ConcExcept(w) ==
    /\ calls[w].op = "get_site_type"
    /\ calls[w].pc = "except"
    /\ LocalStep(w, [calls[w] EXCEPT
            !.result = Result("Regional", 30),
            !.pc = "returned"])

\* a whole call of normalize_region
ConcNormalize(w) ==
    /\ calls[w].op = "normalize_region"
    /\ calls[w].pc = "call"
    /\ LocalStep(w, [calls[w] EXCEPT
            !.result = PyStr(normalize_region(calls[w].arg)),
            !.pc = "returned"])

(***************************************************************************)
(* The urls given to get_site_type: a scheme, a host and a tail.  A host   *)
(* is a leftmost label (or none), up to MaxMiddle middle labels and a      *)
(* suffix.                                                                 *)
(***************************************************************************)
MaxMiddle == 2

Schemes == {"https://", ""}
Leading == {"", "data.", "opendata.", "unirio.", "edu.", "dataportal.",
            "nyc311.", "sao-paulo.", "health-forest."}
MiddleLabels == {"example.", "data."}
Suffixes == {"gov", "gov.uk", "GOV.UK", "edu", "edu.br", "edu.gov.br", "io",
             "org", "com", "br", "uk", "de", "eu", "gob.mx"}
Tails == {"", "/dataset", ":8080"}
Malformed == {"", "https://[::1", "http://data.gov.uk]"}

RECURSIVE MiddlesOfLen(_)
MiddlesOfLen(n) ==
    IF n = 0 THEN {""}
    ELSE {l \o m : l \in MiddleLabels, m \in MiddlesOfLen(n - 1)}

Middles == UNION {MiddlesOfLen(n) : n \in 0..MaxMiddle}

Hosts == {l \o m \o s : l \in Leading, m \in Middles, s \in Suffixes}

Urls == {s \o h \o t : s \in Schemes, h \in Hosts, t \in Tails} \cup Malformed

(***************************************************************************)
(* The texts given to normalize_region: None, or up to MaxWords phrases    *)
(* joined by ", ", with or without blanks around them.                     *)
(***************************************************************************)
MaxWords == 2

Phrases == {allowed_regions[i] : i \in 1..Len(allowed_regions)} \cup
           {"Western Europe", "EU", "north america", "Kigali, Rwanda",
            "Canada", "the Middle East", "North America (USA)", "United States"}
Blanks == {"", " "}

RECURSIVE TextsOfLen(_)
TextsOfLen(n) ==
    IF n = 0 THEN {""}
    ELSE IF n = 1 THEN Phrases
    ELSE {w \o ", " \o x : w \in Phrases, x \in TextsOfLen(n - 1)}

Texts == UNION {TextsOfLen(n) : n \in 0..MaxWords}

RegionArgs == {PyStr(a \o x \o b) : a \in Blanks, x \in Texts, b \in Blanks}
              \cup {PyNone}

(***************************************************************************)
(* The rows given to process_site and the outcomes of one API call: an     *)
(* exception, or the content of the first choice.  A content is its text   *)
(* together with what json.loads makes of that text.                       *)
(***************************************************************************)
Rows ==
    {[url |-> u, name |-> n, detailed_description |-> d] :
        u \in {PyStr(""), NaN, PyStr("https://data.gov.uk")},
        n \in {PyStr(""), NaN, PyStr("UK open data")},
        d \in {PyStr(""), PyStr("Data of the United Kingdom")}}

JSONDecodeError == [kind |-> "JSONDecodeError"]
JsonValue(v) == [kind |-> "value", value |-> v]

LlmRegions == {"Europe", " Western Europe ", "Atlantis", ""}
LlmCountries == {"", "France"}

Tagged(r, c) ==
    "<LOCATION>Paris</LOCATION>\n<REGION>" \o r \o "</REGION>\n<PLACE></PLACE>\n<COUNTRY>"
    \o c \o "</COUNTRY>"

TaggedContents ==
    {[text |-> Tagged(r, c), json |-> JSONDecodeError] :
        r \in LlmRegions, c \in LlmCountries}

OtherTexts ==
    {[text |-> "", json |-> JSONDecodeError],
     [text |-> "I cannot tell.", json |-> JSONDecodeError],
     [text |-> "<REGION>Atlantis<PLACE>Paris</PLACE>", json |-> JSONDecodeError],
     [text |-> "<PLACE>Paris</PLACE>", json |-> JSONDecodeError],
     [text |-> "42", json |-> JsonValue([type |-> "int", value |-> 42])]}

JsonContents ==
    {[text |-> "{\"location\": \"Paris\", \"region\": \"Atlantis\", \"country\": \"France\", \"latitude\": \"48.8\"}",
      json |-> JsonValue(PyDict([location |-> PyStr("Paris"), region |-> PyStr("Atlantis"),
                                 country |-> PyStr("France"), latitude |-> PyStr("48.8")]))],
     [text |-> "{\"location\": \"Paris\", \"region\": \"Western Europe\", \"place\": \"Paris\"}",
      json |-> JsonValue(PyDict([location |-> PyStr("Paris"), region |-> PyStr("Western Europe"),
                                 place |-> PyStr("Paris")]))],
     [text |-> "{\"location\": \"Paris\", \"region\": [\"Europe\"], \"country\": \"France\"}",
      json |-> JsonValue(PyDict([location |-> PyStr("Paris"), region |-> PyList(<<"Europe">>),
                                 country |-> PyStr("France")]))],
     [text |-> "{\"location\": \"Paris\", \"region\": null, \"country\": \"France\"}",
      json |-> JsonValue(PyDict([location |-> PyStr("Paris"), region |-> PyNone,
                                 country |-> PyStr("France")]))],
     [text |-> "{\"location\": \"Paris\", \"country\": \"France\"}",
      json |-> JsonValue(PyDict([location |-> PyStr("Paris"), country |-> PyStr("France")]))],
     [text |-> "{\"location\": \"\", \"region\": \"Europe\", \"country\": \"\"}",
      json |-> JsonValue(PyDict([location |-> PyStr(""), region |-> PyStr("Europe"),
                                 country |-> PyStr("")]))],
     [text |-> "{\"region\": \"Atlantis\", \"country\": \"France\"}",
      json |-> JsonValue(PyDict([region |-> PyStr("Atlantis"), country |-> PyStr("France")]))]}

Contents == TaggedContents \cup OtherTexts \cup JsonContents

ApiOutcomes ==
    {[kind |-> "content", content |-> c] : c \in Contents} \cup
    {[kind |-> "RequestException", message |-> "503 Server Error"],
     [kind |-> "KeyError", message |-> "'choices'"],
     [kind |-> "AttributeError", message |-> "'NoneType' object has no attribute 'replace'"]}

NotCalled == [type |-> "not called"]

\* no call of process_site in progress
SiteIdle ==
    /\ row = NoData
    /\ spc = "idle"
    /\ attempt = 0
    /\ location_data = NoData
    /\ llm = NoData
    /\ out_row = NoData
    /\ sleeps = <<>>
    /\ max_retries = MAX_RETRIES
    /\ tries = <<>>

\* no fallback method called on its own
HeurIdle == hcall = NoData

\* no worker
ConcIdle ==
    /\ calls = <<>>
    /\ self_domain_patterns = domain_patterns

\* no call of get_site_type in progress
ClassifyIdle ==
    /\ url = ""
    /\ pc = "idle"
    /\ domain_matches = <<>>
    /\ site_type = "None"
    /\ confidence = Whole(0)
    /\ metadata = NoMetadata
    /\ resolved_by = "None"

\* no call of normalize_region in progress
RegionIdle ==
    /\ region = NotCalled
    /\ rpc = "idle"
    /\ region_out = "None"
    /\ region_again = "None"

Init ==
    /\ url \in Urls
    /\ pc = "analyze"
    /\ domain_matches = <<>>
    /\ site_type = "None"
    /\ confidence = Whole(0)
    /\ metadata = NoMetadata
    /\ resolved_by = "None"
    /\ RegionIdle
    /\ SiteIdle
    /\ HeurIdle
    /\ ConcIdle

Next ==
    \/ AnalyzeDomain
    \/ SelectBest
    \/ Method1CountryTld
    \/ Method2Subdomain
    \/ Method3DataPortal
    \/ Method4Statistical
    \/ Method5Default
    \/ ReturnResult
    \/ HandleException

\* calls of get_site_type
Spec == Init /\ [][Next]_vars

InitRegion ==
    /\ ClassifyIdle
    /\ region \in RegionArgs
    /\ rpc = "call"
    /\ region_out = "None"
    /\ region_again = "None"
    /\ SiteIdle
    /\ HeurIdle
    /\ ConcIdle

NextRegion ==
    \/ Normalize
    \/ NormalizeAgain

\* calls of normalize_region
SpecRegion == InitRegion /\ [][NextRegion]_vars

InitSite ==
    /\ ClassifyIdle
    /\ RegionIdle
    /\ row \in Rows
    /\ spc = "start"
    /\ attempt = 0
    /\ location_data = NoData
    /\ llm = NoData
    /\ out_row = NoData
    /\ sleeps = <<>>
    /\ max_retries = MAX_RETRIES
    /\ tries = <<>>
    /\ HeurIdle
    /\ ConcIdle

NextSite ==
    \/ ProcessSiteStart
    \/ GetLlmResponseEntry
    \/ \E o \in ApiOutcomes : Attempt(o)
    \/ PrepareResult

\* calls of process_site
SpecSite == InitSite /\ [][NextSite]_vars

\* the calls the workers make
ConcUrls == {"https://data.gov.uk", "sao-paulo.example.br", "https://[::1"}
ConcRegions == {PyStr("Western Europe"), PyNone}

NewCall(op, arg, at) ==
    [op |-> op, arg |-> arg, pc |-> at, domain_matches |-> <<>>,
     site_type |-> "None", confidence |-> Whole(0), result |-> NoData,
     overlapped |-> FALSE]

NewCalls ==
    {NewCall("get_site_type", PyStr(u), "analyze") : u \in ConcUrls} \cup
    {NewCall("normalize_region", r, "call") : r \in ConcRegions}

InitConcurrent ==
    /\ ClassifyIdle
    /\ RegionIdle
    /\ SiteIdle
    /\ HeurIdle
    /\ calls \in [Workers -> NewCalls]
    /\ self_domain_patterns = domain_patterns

NextConcurrent ==
    \E w \in Workers :
        \/ ConcAnalyze(w)
        \/ ConcSelect(w)
        \/ ConcFallback(w)
        \/ ConcReturn(w)
        \/ ConcExcept(w)
        \/ ConcNormalize(w)

\* concurrent calls of get_site_type and normalize_region
SpecConcurrent == InitConcurrent /\ [][NextConcurrent]_vars

(***************************************************************************)
(* get_llm_response called on its own with max_retries up to MaxRetriesArg *)
(***************************************************************************)
MaxRetriesArg == 3

InitLlm ==
    /\ ClassifyIdle
    /\ RegionIdle
    /\ HeurIdle
    /\ ConcIdle
    /\ row = NoData
    /\ spc = "llm_entry"
    /\ attempt = 0
    /\ location_data = NoData
    /\ llm = NoData
    /\ out_row = NoData
    /\ sleeps = <<>>
    /\ max_retries \in 0..MaxRetriesArg
    /\ tries = <<>>

NextLlm ==
    \/ GetLlmResponseEntry
    \/ \E o \in ApiOutcomes : Attempt(o)

\* the loop is sequential code: a pass that can be made is made, every call
\* of the API coming back with a response or an exception
SpecLlm == InitLlm /\ [][NextLlm]_vars /\ WF_vars(NextLlm)

(***************************************************************************)
(* The urls given to a fallback method called on its own: a leading label  *)
(* (every key of subdomain_patterns among them), up to MaxMiddle middle    *)
(* labels and a suffix; a url with a path, one without protocol, one that  *)
(* urlparse rejects.                                                        *)
(***************************************************************************)
HeurLeading == {"", "www.", "nyc311.", "sao-paulo.", "university.", "citymaps.",
                "researchdataportal.", "openplatform."} \cup
               {subdomain_patterns[i][1] \o "." : i \in 1..Len(subdomain_patterns)}
HeurSuffixes == {"gov", "gov.uk", "GOV.UK", "uk", "de", "eu", "jp", "org", "com",
                 "io", "br", "edu.br", "eu:8080"}
HeurHosts == {l \o m \o s : l \in HeurLeading, m \in Middles, s \in HeurSuffixes}
HeurUrls == {"https://" \o h : h \in HeurHosts} \cup
            {"https://example.eu/opendata", "data.gov.uk", "https://[::1"}
HeurMethods == {"check_country_tld", "analyze_subdomain",
                "check_data_portal_patterns", "statistical_classification",
                "default_classification"}

InitHeuristics ==
    /\ ClassifyIdle
    /\ RegionIdle
    /\ SiteIdle
    /\ ConcIdle
    /\ hcall \in {[kind |-> "call", method |-> m, url |-> u, pc |-> "called",
                    result |-> Unknown] : m \in HeurMethods, u \in HeurUrls}

NextHeuristics ==
    \/ CallCheckCountryTld
    \/ CallAnalyzeSubdomain
    \/ CallCheckDataPortalPatterns
    \/ CallStatisticalClassification
    \/ CallDefaultClassification

SpecHeuristics == InitHeuristics /\ [][NextHeuristics]_vars

(***************************************************************************)
(* Properties of get_site_type (under Spec)                                *)
(***************************************************************************)
SectorLabels == {"Government", "Educational", "Research", "Healthcare",
                 "Non-profit", "Commercial", "Transportation", "Environmental",
                 "Agriculture", "Regional"}

FallbackMethods == {"country_tld", "subdomain", "data_portal", "statistical", "default"}

Returned == pc = "returned"
\* the call came back through the normal return, not the except clause
ReturnedNormally == pc = "returned" /\ resolved_by # "except"

\* the candidates no candidate exceeds
Maximal(matches) ==
    {i \in 1..Len(matches) :
        \A k \in 1..Len(matches) : ~Less(matches[i].confidence, matches[k].confidence)}

\* C1: whatever the url (empty, without scheme, rejected by urlparse), the
\* category get_site_type returns is one of the ten sector labels; "Unknown"
\* never leaves the call.
C1_ClassifyTotal ==
    Returned => site_type \in SectorLabels

\* a url without scheme: no candidate, Unknown, resolved by the default method
C1_Witness ==
    /\ Returned
    /\ url = "data.gov.uk"
    /\ domain_matches = <<>>
    /\ resolved_by = "default"
    /\ site_type = "Regional"

\* C4: no exception leaves get_site_type: a call is always at a statement of
\* the function or has returned, never left by an exception; what is returned
\* is a category, a confidence and a metadata record; an exception of urlparse
\* ends in the except clause's result.
C4_ClassifyNeverRaises ==
    /\ pc # "raised"
    /\ pc \in {"analyze", "select", "metadata", "except", "returned"}
              \cup FallbackMethods
    /\ Returned =>
        /\ site_type \in SectorLabels
        /\ AtLeast(confidence, 0)
        /\ metadata.kind \in {"evidence", "error"}
    /\ Returned /\ UrlparseRaises(url) =>
        /\ site_type = "Regional"
        /\ Same(confidence, Whole(30))
        /\ metadata.kind = "error"

\* urlparse raised and the call still returned a result
C4_Witness ==
    /\ Returned
    /\ url = "https://[::1"
    /\ resolved_by = "except"
    /\ site_type = "Regional"

\* C5: when several candidates share the maximal confidence, get_site_type
\* returns the one among them with the lowest priority value, and
\* analyze_domain lists candidates of equal confidence by ascending priority.
C5_TieBreakLowestPriority ==
    pc \in {"metadata", "returned"} /\ resolved_by = "primary" =>
        /\ \E i \in Maximal(domain_matches) : domain_matches[i].category = site_type
        /\ \A i \in Maximal(domain_matches) :
              Priority(site_type) <= Priority(domain_matches[i].category)
        /\ \A i \in 1..Len(domain_matches) : \A j \in (i + 1)..Len(domain_matches) :
              Same(domain_matches[i].confidence, domain_matches[j].confidence) =>
                  Priority(domain_matches[i].category)
                      < Priority(domain_matches[j].category)

\* Healthcare and Environmental tie at 1/18 and Healthcare is returned
C5_Witness ==
    /\ Returned
    /\ url = "https://health-forest.br"
    /\ Cardinality(Maximal(domain_matches)) = 2
    /\ site_type = "Healthcare"

\* every pattern of every category that the domain matches
Hits(domain) ==
    UNION {{<<i, j>> : j \in {k \in 1..Len(domain_patterns[i].patterns) :
                                Search(domain_patterns[i].patterns[k], domain)}} :
           i \in 1..Len(domain_patterns)}

\* C6: a domain that matches \.gov(\.|$) and no other pattern of any category
\* is classified Government with confidence >= 90.
C6_GovFloorDominance ==
    (/\ ReturnedNormally
     /\ Search(DotOrEnd(".gov"), Domain(url))
     /\ Cardinality(Hits(Domain(url))) = 1)
    => site_type = "Government" /\ AtLeast(confidence, 90)

\* example.gov: one hit out of 29, raised to 90
C6_Witness ==
    /\ Returned
    /\ url = "https://example.gov"
    /\ Cardinality(Hits(Domain(url))) = 1
    /\ site_type = "Government"
    /\ Same(confidence, Whole(90))

\* C7: whenever analyze_domain has returned, the fallback chain is entered
\* exactly when it returned no candidate; with a candidate the result is the
\* top candidate with its confidence.  https://data.gov.uk comes back
\* Government with confidence >= 90.
C7_PrimaryWinsOverFallback ==
    /\ pc \in FallbackMethods => domain_matches = <<>>
    /\ (pc \in {"metadata", "returned"} /\ resolved_by # "except") =>
          IF domain_matches = <<>>
          THEN resolved_by \in FallbackMethods
          ELSE /\ resolved_by = "primary"
               /\ site_type = domain_matches[1].category
               /\ Same(confidence, domain_matches[1].confidence)
    /\ (Returned /\ url = "https://data.gov.uk") =>
          site_type = "Government" /\ AtLeast(confidence, 90)

\* data.gov.uk: the country-TLD method would answer too, the primary result stands
C7_Witness ==
    /\ Returned
    /\ url = "https://data.gov.uk"
    /\ check_country_tld(url).site_type # "Unknown"
    /\ resolved_by = "primary"
    /\ site_type = "Government"

\* the five methods in the order of apply_fallback_methods
FallbackChain(u) == <<
    [by |-> "country_tld", r |-> check_country_tld(u)],
    [by |-> "subdomain", r |-> analyze_subdomain(u)],
    [by |-> "data_portal", r |-> check_data_portal_patterns(u)],
    [by |-> "statistical", r |-> statistical_classification(u)],
    [by |-> "default", r |-> default_classification(u)] >>

\* apply_fallback_methods: the result of the first method that is not Unknown
apply_fallback_methods(u) ==
    LET chain == FallbackChain(u)
        first == CHOOSE i \in 1..Len(chain) :
                    /\ chain[i].r.site_type # "Unknown"
                    /\ \A j \in 1..(i - 1) : chain[j].r.site_type = "Unknown"
    IN  chain[first].r

\* get_site_type run alone on u: the site type and confidence it returns
get_site_type(u) ==
    IF UrlparseRaises(u) THEN Result("Regional", 30)
    ELSE LET combined_scores == CombinedScores(analyze_domain(u))
         IN  IF combined_scores # <<>>
             THEN LET best_category == BestCategory(combined_scores)
                  IN  [site_type |-> best_category.category,
                       confidence |-> PyMin(best_category.confidence, Whole(100))]
             ELSE apply_fallback_methods(u)

\* C8: a result of the fallback chain is the output of the first method, in the
\* order country-TLD, subdomain, data-portal, statistical, default, that is
\* not Unknown; no later method changes it.
C8_FallbackFirstNonUnknown ==
    (pc \in {"metadata", "returned"} /\ resolved_by \in FallbackMethods) =>
        LET chain == FallbackChain(url)
            first == CHOOSE i \in 1..Len(chain) :
                        /\ chain[i].r.site_type # "Unknown"
                        /\ \A j \in 1..(i - 1) : chain[j].r.site_type = "Unknown"
        IN  /\ resolved_by = chain[first].by
            /\ site_type = chain[first].r.site_type
            /\ confidence = chain[first].r.confidence

\* data.example.de: no candidate; the country-TLD method says Regional although
\* the subdomain method would say Government
C8_Witness ==
    /\ Returned
    /\ url = "https://data.example.de"
    /\ domain_matches = <<>>
    /\ analyze_subdomain(url).site_type = "Government"
    /\ resolved_by = "country_tld"
    /\ site_type = "Regional"

\* C9: https://opendata.example.io has no primary candidate and is resolved
\* by the subdomain method as Government with confidence 70.
C9_OpendataExampleIo ==
    (Returned /\ url = "https://opendata.example.io") =>
        /\ domain_matches = <<>>
        /\ resolved_by = "subdomain"
        /\ site_type = "Government"
        /\ Same(confidence, Whole(70))

\* the Educational candidate's confidence is exceeded by no other candidate
EducationalUnexceeded ==
    \E i \in 1..Len(domain_matches) :
        /\ domain_matches[i].category = "Educational"
        /\ \A k \in 1..Len(domain_matches) :
              ~Less(domain_matches[i].confidence, domain_matches[k].confidence)

\* the Government candidate, if any, stays below the Educational one
GovernmentBelowEducational ==
    \A i, k \in 1..Len(domain_matches) :
        (domain_matches[i].category = "Educational"
            /\ domain_matches[k].category = "Government")
        => Less(domain_matches[k].confidence, domain_matches[i].confidence)

\* C10 as claimed: a domain matching \.edu(\.|$) for which no other category
\* reaches a higher confidence is classified Educational with confidence >= 90.
C10_EduSuffixAsClaimed ==
    (/\ ReturnedNormally
     /\ Search(DotOrEnd(".edu"), Domain(url))
     /\ EducationalUnexceeded)
    => site_type = "Educational" /\ AtLeast(confidence, 90)

\* C10 amended: a domain matching \.edu(\.|$) for which no other category
\* reaches a higher confidence, and Government does not reach an equal one,
\* is classified Educational with confidence >= 90.
C10_EduSuffixUnlessGovernmentTies ==
    (/\ ReturnedNormally
     /\ Search(DotOrEnd(".edu"), Domain(url))
     /\ EducationalUnexceeded
     /\ GovernmentBelowEducational)
    => site_type = "Educational" /\ AtLeast(confidence, 90)

\* unirio.edu.br: two Educational hits out of 21, raised to 90
C10_Witness ==
    /\ Returned
    /\ url = "https://unirio.edu.br"
    /\ EducationalUnexceeded
    /\ site_type = "Educational"
    /\ Same(confidence, Whole(90))

\* a url that is a bare host: no scheme, no path, no port
HostOnly(u) == u # "" /\ ~Contains(u, "/") /\ ~Contains(u, ":")

\* the steps agree with get_site_type run alone
StepsAgreeWithCall ==
    Returned => /\ site_type = get_site_type(url).site_type
                /\ Same(confidence, get_site_type(url).confidence)

\* C13: a host given without a scheme gets the same category and confidence
\* as the same host given with "https://" in front.
C13_ProtocolOptional ==
    (Returned /\ HostOnly(url)) =>
        LET with_scheme == get_site_type("https://" \o url)
        IN  /\ site_type = with_scheme.site_type
            /\ Same(confidence, with_scheme.confidence)

\* C14: a url from which no domain can be extracted, whether urlparse gives an
\* empty netloc or raises, ends in the default method with Regional and
\* confidence 40.
C14_MalformedEndsAtDefault ==
    (Returned /\ (UrlparseRaises(url) \/ Netloc(url) = "")) =>
        /\ resolved_by = "default"
        /\ site_type = default_classification("").site_type
        /\ Same(confidence, default_classification("").confidence)
        /\ site_type = "Regional"
        /\ Same(confidence, Whole(40))

\* a confidence within the closed interval [0, 100]
InRange(c) == c.den > 0 /\ AtLeast(c, 0) /\ AtMost(c, 100)

\* C15: the confidence get_site_type returns, the confidence of every
\* candidate of analyze_domain and the confidence every fallback method gives
\* for the url are all within [0, 100].
C15_ConfidenceRange ==
    /\ InRange(confidence)
    /\ \A i \in 1..Len(domain_matches) : InRange(domain_matches[i].confidence)
    /\ pc = "select" =>
          LET chain == FallbackChain(url)
          IN  \A i \in 1..Len(chain) : InRange(chain[i].r.confidence)

\* data.example.eu: the country-TLD method's 65 + 20 is cut to 80
C15_Witness ==
    /\ Returned
    /\ url = "https://data.example.eu"
    /\ resolved_by = "country_tld"
    /\ Same(confidence, Whole(80))
    /\ InRange(confidence)

\* the categories with a floor: the exact TLD pattern and the floor
Floors == <<
    [category |-> "Government", tld |-> ".gov", floor |-> 90],
    [category |-> "Educational", tld |-> ".edu", floor |-> 90],
    [category |-> "Non-profit", tld |-> ".org", floor |-> 70] >>

\* the floor of a category on a domain: 0 when it has none or its exact TLD
\* pattern did not match
FloorOf(category, domain) ==
    LET f == {i \in 1..Len(Floors) :
                /\ Floors[i].category = category
                /\ Search(DotOrEnd(Floors[i].tld), domain)}
    IN  IF f = {} THEN 0 ELSE Floors[CHOOSE i \in f : TRUE].floor

\* C19: every category with at least one matching pattern has one candidate,
\* whose confidence is min(100, hits / patternCount * 100), raised to the
\* category's floor (Government 90, Educational 90, Non-profit 70) when the
\* category's exact TLD pattern matched and left as it is otherwise; a
\* category without a matching pattern has no candidate.
C19_ConfidenceFormula ==
    pc = "select" =>
        LET domain == Domain(url)
        IN  \A c \in 1..Len(domain_patterns) :
                LET config == domain_patterns[c]
                    hits == Cardinality({k \in 1..Len(config.patterns) :
                                            Search(config.patterns[k], domain)})
                    count == Len(config.patterns)
                    floor == FloorOf(config.category, domain)
                    found == {i \in 1..Len(domain_matches) :
                                domain_matches[i].category = config.category}
                IN  IF hits = 0 THEN found = {}
                    ELSE /\ Cardinality(found) = 1
                         /\ \A i \in found :
                              LET conf == domain_matches[i].confidence
                              IN  IF hits * 100 >= 100 * count
                                  THEN Same(conf, Whole(100))
                                  ELSE IF hits * 100 < floor * count
                                  THEN Same(conf, Whole(floor))
                                  ELSE Same(conf, Rat(hits * 100, count))

\* health-forest.org: Non-profit is raised to 70, Healthcare stays at 1 of 18
C19_Witness ==
    /\ pc = "select"
    /\ url = "https://health-forest.org"
    /\ \E i \in 1..Len(domain_matches) :
            /\ domain_matches[i].category = "Non-profit"
            /\ Same(domain_matches[i].confidence, Whole(70))
    /\ \E i \in 1..Len(domain_matches) :
            /\ domain_matches[i].category = "Healthcare"
            /\ Same(domain_matches[i].confidence, Rat(100, 18))

\* the TLD-suffix patterns of the categories that have a floor
TldPatterns == <<
    [category |-> "Government", floor |-> 90,
     patterns |-> {DotOrEnd(".gov"), DotOrEnd(".gob"), DotOrEnd(".govt"),
                   DotOrEnd(".mil"), TwoLetters(".go.")}],
    [category |-> "Educational", floor |-> 90,
     patterns |-> {DotOrEnd(".edu"), TwoLetters(".ac."), TwoLetters(".edu.")}],
    [category |-> "Non-profit", floor |-> 70,
     patterns |-> {DotOrEnd(".org")}] >>

\* C20: whenever any TLD-suffix pattern of Government, Educational or
\* Non-profit matches the domain, that category's candidate has at least the
\* category's floor (90, 90, 70), and so comes before every candidate of a
\* category without a floor.
C20_FloorForEveryTldPattern ==
    pc = "select" =>
        LET domain == Domain(url)
        IN  \A g \in 1..Len(TldPatterns) :
                (\E p \in TldPatterns[g].patterns : Search(p, domain)) =>
                    \E i \in 1..Len(domain_matches) :
                        /\ domain_matches[i].category = TldPatterns[g].category
                        /\ AtLeast(domain_matches[i].confidence, TldPatterns[g].floor)
                        /\ \A k \in 1..(i - 1) :
                              \E h \in 1..Len(TldPatterns) :
                                  domain_matches[k].category = TldPatterns[h].category

\* C26: the list that analyze_domain hands back holds a category exactly when
\* a pattern of the category matches the domain, and holds it once; the
\* category that get_site_type returns from a non-empty list has a confidence
\* that no candidate exceeds, whatever the priorities
C26_CandidatesAndSelection ==
    LET n == Len(domain_matches)
    IN  /\ pc = "select" =>
              LET hit == {h[1] : h \in Hits(Domain(url))}
              IN  /\ \A i \in 1..Len(domain_patterns) :
                        i \in hit
                            <=> (\E k \in 1..n :
                                    domain_matches[k].category
                                        = domain_patterns[i].category)
                  /\ \A k \in 1..n : \E i \in 1..Len(domain_patterns) :
                        domain_matches[k].category = domain_patterns[i].category
                  /\ \A k, l \in 1..n :
                        domain_matches[k].category = domain_matches[l].category
                            => k = l
        /\ (pc \in {"metadata", "returned"} /\ resolved_by # "except" /\ n > 0) =>
              \E k \in 1..n :
                  /\ domain_matches[k].category = site_type
                  /\ Same(domain_matches[k].confidence, confidence)
                  /\ \A l \in 1..n : ~Less(confidence, domain_matches[l].confidence)

\* the returned category beats a candidate of better priority by its confidence
C26_Witness ==
    /\ Returned
    /\ resolved_by = "primary"
    /\ \E l \in 1..Len(domain_matches) :
          /\ Priority(domain_matches[l].category) < Priority(site_type)
          /\ Less(domain_matches[l].confidence, confidence)
    /\ Cardinality({domain_patterns[i].category : i \in 1..Len(domain_patterns)})
          > Len(domain_matches)

\* a is ahead of b in the order of the candidates: higher confidence, or the
\* same confidence and the lower priority number
Ahead(a, b) ==
    \/ Less(b.confidence, a.confidence)
    \/ /\ Same(a.confidence, b.confidence)
       /\ Priority(a.category) < Priority(b.category)

\* C27: on a return that did not pass the except clause the metadata holds the
\* domain of the url (the matched domain up to letter case) and the first
\* candidates, at most 3, in non-increasing confidence, equal confidences by
\* ascending priority, no candidate left out being ahead of one kept; a
\* non-empty list starts with the returned (category, confidence); a result
\* of the fallback chain has an empty list
C27_EvidenceTop3 ==
    ReturnedNormally =>
        LET top == metadata.domain_matches
            n == Len(domain_matches)
        IN  /\ metadata.kind = "evidence"
            /\ metadata.domain = Netloc(url)
            /\ Lower(metadata.domain) = Domain(url)
            /\ Len(top) = IF n < 3 THEN n ELSE 3
            /\ \A k \in 1..Len(top) : top[k] = domain_matches[k]
            /\ \A k \in 1..(Len(top) - 1) : Ahead(top[k], top[k + 1])
            /\ \A k \in 1..Len(top) : \A l \in (Len(top) + 1)..n :
                  Ahead(top[k], domain_matches[l])
            /\ top # <<>> =>
                  /\ top[1].category = site_type
                  /\ Same(top[1].confidence, confidence)
            /\ resolved_by \in FallbackMethods => top = <<>>

\* four candidates, three kept, the first two with equal confidence
C27_Witness ==
    /\ ReturnedNormally
    /\ Len(domain_matches) > 3
    /\ Len(metadata.domain_matches) = 3
    /\ Same(metadata.domain_matches[1].confidence,
            metadata.domain_matches[2].confidence)

\* C28: a domain ending in .org, .com or .io has a Non-profit or Commercial
\* candidate, so get_site_type never enters the fallback chain for it; a
\* result of the fallback chain is never Non-profit or Commercial, and a
\* result of the default method is (Government, 45) or (Regional, 40)
C28_DefaultSuffixBranchesUnreachable ==
    /\ (pc \in {"select", "metadata", "returned"} \cup FallbackMethods
            /\ resolved_by # "except") =>
          LET domain == Domain(url)
              has(c) == \E k \in 1..Len(domain_matches) :
                            domain_matches[k].category = c
          IN  /\ EndsWith(domain, ".org") => has("Non-profit")
              /\ (EndsWith(domain, ".com") \/ EndsWith(domain, ".io"))
                    => has("Commercial")
              /\ (EndsWith(domain, ".org") \/ EndsWith(domain, ".com")
                     \/ EndsWith(domain, ".io"))
                    => /\ pc \notin FallbackMethods
                       /\ resolved_by \notin FallbackMethods
    /\ resolved_by \in FallbackMethods
          => site_type \notin {"Non-profit", "Commercial"}
    /\ resolved_by = "default" =>
          \/ site_type = "Government" /\ Same(confidence, Whole(45))
          \/ site_type = "Regional" /\ Same(confidence, Whole(40))

\* a .com or .io domain for which the fallback chain would end in the default
\* method's Commercial: the call returns the candidate and never asks the chain
C28_Witness ==
    /\ Returned
    /\ EndsWith(Domain(url), ".com") \/ EndsWith(Domain(url), ".io")
    /\ default_classification(url).site_type = "Commercial"
    /\ apply_fallback_methods(url).site_type = "Commercial"
    /\ resolved_by = "primary"

(***************************************************************************)
(* Properties of normalize_region (under SpecRegion)                       *)
(***************************************************************************)
AllowedRegion == {"North America", "Latin America & Caribbean",
                  "Sub-Saharan Africa", "Europe", "Asia-Pacific",
                  "North Africa & Middle East", "Central Asia",
                  "Global / Uncertain"}

\* C2: whatever the argument (None, empty, blank, several phrases), the value
\* normalize_region returns is one of the 8 allowed regions, and so is every
\* value of the synonym table.
C2_NormalizeTotal ==
    /\ rpc \in {"returned", "again"} => region_out \in AllowedRegion
    /\ \A i \in 1..Len(region_mappings) : region_mappings[i][2] \in AllowedRegion

\* a text no tier matches comes back as the sentinel
C2_Witness ==
    /\ rpc = "returned"
    /\ region = PyStr("Kigali, Rwanda, Canada")
    /\ region_out = "Global / Uncertain"

\* C3: an allowed region is returned unchanged, and normalizing a returned
\* value again returns it unchanged.
C3_NormalizeIdempotent ==
    /\ (rpc \in {"returned", "again"} /\ region.type = "str"
            /\ region.value \in AllowedRegion)
        => region_out = region.value
    /\ rpc = "again" => region_again = region_out

\* "North America" has no synonym key: only the exact tier keeps it
C3_Witness ==
    /\ rpc = "again"
    /\ region = PyStr("North America")
    /\ region_out = "North America"
    /\ region_again = "North America"

\* the text of a str argument as the tiers see it: stripped
Stripped == IF region.type = "str" THEN Strip(region.value) ELSE ""

\* the positions of the synonym table whose key the text contains
KeysIn(text) ==
    {i \in 1..Len(region_mappings) : Contains(text, region_mappings[i][1])}

\* C11: when the stripped text is not exactly an allowed region and its
\* lowercased form contains keys of the synonym table, the result is the
\* region of the first such key in table order, whatever the order of the
\* words in the text; "Western Europe" gives "Europe".
C11_KeywordTierFirstKey ==
    /\ (rpc \in {"returned", "again"} /\ Stripped \notin AllowedRegion)
        => LET region_lower == Lower(Stripped)
               found == KeysIn(region_lower)
           IN  \A i \in found :
                  (\A j \in found : i <= j) => region_out = region_mappings[i][2]
    /\ (rpc \in {"returned", "again"} /\ region = PyStr("Western Europe"))
        => region_out = "Europe"

\* keys of two regions: "middle east" comes first in the text, "europe" first
\* in the table
C11_Witness ==
    /\ rpc = "returned"
    /\ region = PyStr("the Middle East, Western Europe")
    /\ \E i, j \in KeysIn(Lower(Stripped)) :
            region_mappings[i][2] # region_mappings[j][2]
    /\ region_out = "Europe"

CountriesIn(text) ==
    {i \in 1..Len(country_region_map) : Contains(text, country_region_map[i][1])}

\* C18: when the text is not exactly an allowed region and holds no synonym
\* key, a country name of the country table contained in the lowercased text
\* gives the region mapped to that country; without a country the result is
\* "Global / Uncertain".
C18_CountryTier ==
    (rpc \in {"returned", "again"} /\ Stripped \notin AllowedRegion) =>
        LET region_lower == Lower(Stripped)
            countries == CountriesIn(region_lower)
        IN  KeysIn(region_lower) = {} =>
                IF countries = {}
                THEN region_out = "Global / Uncertain"
                ELSE \E i \in countries : region_out = country_region_map[i][2]

IsAllowedRegion(v) == v.type = "str" /\ v.value \in AllowedRegion

\* C17: the region of the dict process_site returns is an allowed region on
\* every path (row without data, JSON answer, tagged answer, failed parse,
\* retries exhausted), and so is the region of every dict parse_llm_response
\* returns; the empty region of get_llm_response's error record is not
\* written to the row.
C17_OnlyAllowedRegionPersisted ==
    /\ spc = "returned" => IsAllowedRegion(out_row["region"])
    /\ location_data # NoData => IsAllowedRegion(location_data["region"])

\* all retries failed: get_llm_response gave the empty region, the row holds
\* the sentinel
C17_Witness ==
    /\ spc = "returned"
    /\ attempt = MAX_RETRIES - 1
    /\ Truthy(llm.error)
    /\ llm.result["region"] = PyStr("")
    /\ out_row["region"] = PyStr("Global / Uncertain")

(***************************************************************************)
(* Properties of get_llm_response called on its own (under SpecLlm)        *)
(***************************************************************************)
\* get_llm_response has returned or an exception has left it
LlmDone == spc \in {"llm_returned", "raised"}

\* no pass of the loop ended in an exception the except clause does not name
OnlyHandled == \A k \in 1..Len(tries) : tries[k] # "raised"

\* what holds of the passes made so far when max_retries >= 1 and every
\* failure was a handled one
BoundedRetryState ==
    (max_retries >= 1 /\ OnlyHandled) =>
        LET valid == /\ location_data # NoData
                     /\ \/ Truthy(Get(location_data, "country", PyNone))
                        \/ Truthy(Get(location_data, "place", PyNone))
        IN  /\ Len(tries) <= max_retries
            /\ \A k \in 1..(Len(tries) - 1) : tries[k] = "failed"
            /\ \A k \in 1..Len(sleeps) : sleeps[k] = Pow2(k - 1)
            /\ spc = "attempt" =>
                  /\ Len(tries) < max_retries
                  /\ Len(sleeps) = Len(tries)
                  /\ tries # <<>> => tries[Len(tries)] = "failed"
                  /\ ~valid
            /\ (spc = "llm_returned" /\ llm.error = PyNone) =>
                  /\ tries[Len(tries)] = "returned"
                  /\ valid
                  /\ llm.result = location_data
                  /\ Len(sleeps) = Len(tries) - 1
            /\ (spc = "llm_returned" /\ llm.error # PyNone) =>
                  /\ Len(tries) = max_retries
                  /\ \A k \in 1..Len(tries) : tries[k] = "failed"
                  /\ llm.result = EmptyRecord
                  /\ llm.error.type = "str" /\ llm.error.value # ""
                  /\ Len(sleeps) = max_retries - 1

\* C30: for max_retries >= 1 and failures of the handled kinds only,
\* get_llm_response makes at most max_retries passes and ends; it returns
\* (location_data, None) at the first pass whose parsed response has a country
\* or a place and makes no pass after it; it returns the empty record with an
\* error message only after exactly max_retries failed passes, and it waits
\* after every failed pass but the last
C30_BoundedRetry == []BoundedRetryState /\ <>LlmDone

\* three passes failed: two waits, of 1 and 2 seconds, and the error result
C30_Witness ==
    /\ spc = "llm_returned"
    /\ max_retries = 3
    /\ tries = <<"failed", "failed", "failed">>
    /\ sleeps = <<1, 2>>
    /\ llm.result = EmptyRecord
    /\ Truthy(llm.error)

(***************************************************************************)
(* Properties of concurrent calls (under SpecConcurrent)                   *)
(***************************************************************************)
\* what the call of a worker returns when it runs alone
Alone(call) ==
    IF call.op = "get_site_type" THEN get_site_type(call.arg.value)
    ELSE PyStr(normalize_region(call.arg))

\* C16: in every interleaving of the workers' calls, a call that has returned
\* has returned what the same call returns when run alone, and the
\* detector's pattern table is what it was at the start.
C16_StatelessUnderConcurrency ==
    /\ self_domain_patterns = domain_patterns
    /\ \A w \in Workers :
          calls[w].pc = "returned" =>
              IF calls[w].op = "get_site_type"
              THEN /\ calls[w].result.site_type = Alone(calls[w]).site_type
                   /\ Same(calls[w].result.confidence, Alone(calls[w]).confidence)
              ELSE calls[w].result = Alone(calls[w])

\* two calls of get_site_type on different urls ran inside each other and
\* returned different results
C16_Witness ==
    /\ calls[1].pc = "returned" /\ calls[2].pc = "returned"
    /\ calls[1].overlapped /\ calls[2].overlapped
    /\ calls[1].arg = PyStr("https://data.gov.uk")
    /\ calls[2].arg = PyStr("sao-paulo.example.br")
    /\ calls[1].result.site_type # calls[2].result.site_type

(***************************************************************************)
(* Properties of the fallback methods called on their own (under           *)
(* SpecHeuristics)                                                         *)
(***************************************************************************)
HeurReturned(method) ==
    hcall.kind = "call" /\ hcall.pc = "returned" /\ hcall.method = method

\* C21: analyze_subdomain returns (Unknown, 0) for a domain of fewer than 3
\* labels and for one whose leftmost label holds no key of the table, whatever
\* the other labels hold; a domain of at least 3 labels whose leftmost label
\* equals a key of the table yields the (category, confidence) of that key
C21_SubdomainTable ==
    HeurReturned("analyze_subdomain") =>
        LET domain == Domain(hcall.url)
            subdomain == FirstPart(domain)
        IN  /\ NumParts(domain) < 3 => hcall.result = Unknown
            /\ (\A i \in 1..Len(subdomain_patterns) :
                    ~Contains(subdomain, subdomain_patterns[i][1]))
                    => hcall.result = Unknown
            /\ \A i \in 1..Len(subdomain_patterns) :
                    (NumParts(domain) >= 3 /\ subdomain = subdomain_patterns[i][1])
                        => hcall.result = Result(subdomain_patterns[i][2],
                                                 subdomain_patterns[i][3])

\* C22: for a domain ending in a suffix of gov_country_patterns with entry
\* (category, base), check_country_tld returns (category, min(80, base + 20))
\* when the domain holds a data keyword and (category, base) when it holds
\* none; the confidence never exceeds 80; no listed suffix gives (Unknown, 0)
C22_CountryTldBoostCapped ==
    HeurReturned("check_country_tld") =>
        LET domain == Domain(hcall.url)
            keyword == \E k \in {"data", "datos", "donnees", "daten", "open", "portal"} :
                           Contains(domain, k)
            listed == {i \in 1..Len(gov_country_patterns) :
                          EndsWith(domain, gov_country_patterns[i][1])}
        IN  /\ \A i \in listed :
                  LET category == gov_country_patterns[i][2]
                      base == gov_country_patterns[i][3]
                  IN  hcall.result =
                          IF keyword
                          THEN Result(category, IF base + 20 < 80 THEN base + 20 ELSE 80)
                          ELSE Result(category, base)
            /\ AtMost(hcall.result.confidence, 80)
            /\ listed = {} => hcall.result = Unknown

\* a .eu domain with a data keyword: 65 + 20 is cut to 80
C22_Witness ==
    /\ HeurReturned("check_country_tld")
    /\ EndsWith(Domain(hcall.url), ".eu")
    /\ Contains(Domain(hcall.url), "data")
    /\ hcall.result = Result("Government", 80)

\* C23: default_classification never returns Unknown: Government for a domain
\* holding a data keyword, else Non-profit for one ending in .org, else for one
\* ending in .com or .io Regional with a geographic keyword and Commercial
\* without, else Regional; the first rule that applies decides
C23_DefaultOrdered ==
    HeurReturned("default_classification") =>
        LET domain == Domain(hcall.url)
            data == \E k \in {"data", "datos", "donnees"} : Contains(domain, k)
            org == EndsWith(domain, ".org")
            commercial == EndsWith(domain, ".com") \/ EndsWith(domain, ".io")
            geo == \E k \in {"map", "geo", "city", "region", "local"} :
                       Contains(domain, k)
        IN  /\ hcall.result.site_type # "Unknown"
            /\ data => hcall.result.site_type = "Government"
            /\ (~data /\ org) => hcall.result.site_type = "Non-profit"
            /\ (~data /\ ~org /\ commercial /\ geo)
                   => hcall.result.site_type = "Regional"
            /\ (~data /\ ~org /\ commercial /\ ~geo)
                   => hcall.result.site_type = "Commercial"
            /\ (~data /\ ~org /\ ~commercial)
                   => hcall.result.site_type = "Regional"

\* a .org domain with a data keyword is Government, and a .com domain with a
\* geographic keyword is reached in the same specification
C23_Witness ==
    /\ HeurReturned("default_classification")
    /\ EndsWith(Domain(hcall.url), ".org")
    /\ Contains(Domain(hcall.url), "data")
    /\ hcall.result = Result("Government", 45)

\* C24: statistical_classification, first rule that applies: two labels with
\* a data keyword -> Government; four or more labels -> Educational with an
\* academic keyword, else Government; else a hyphen between letters ->
\* Regional; else (Unknown, 0)
C24_StatisticalOrdered ==
    HeurReturned("statistical_classification") =>
        LET domain == Domain(hcall.url)
            parts == NumParts(domain)
            short == parts = 2 /\ \E k \in {"data", "open"} : Contains(domain, k)
            academic == \E k \in {"univ", "edu", "acad"} : Contains(domain, k)
        IN  /\ short => hcall.result.site_type = "Government"
            /\ (~short /\ parts >= 4 /\ academic)
                   => hcall.result.site_type = "Educational"
            /\ (~short /\ parts >= 4 /\ ~academic)
                   => hcall.result.site_type = "Government"
            /\ (~short /\ parts < 4 /\ HasHyphenated(domain))
                   => hcall.result.site_type = "Regional"
            /\ (~short /\ parts < 4 /\ ~HasHyphenated(domain))
                   => hcall.result = Unknown

\* a hyphenated domain of four or more labels without academic keyword
C24_Witness ==
    /\ HeurReturned("statistical_classification")
    /\ NumParts(Domain(hcall.url)) >= 4
    /\ HasHyphenated(Domain(hcall.url))
    /\ hcall.result = Result("Government", 50)

\* C25: check_data_portal_patterns on a domain with a portal keyword returns
\* Government with 'gov' or 'public', else Research with 'research' or
\* 'science', else Regional; without portal keyword, Regional for two or more
\* consecutive digits, else (Unknown, 0)
C25_DataPortalOrdered ==
    HeurReturned("check_data_portal_patterns") =>
        LET domain == Domain(hcall.url)
            portal == \E k \in {"dataplatform", "dataportal", "openplatform"} :
                          Contains(domain, k)
            gov == Contains(domain, "gov") \/ Contains(domain, "public")
            research == Contains(domain, "research") \/ Contains(domain, "science")
        IN  /\ (portal /\ gov) => hcall.result.site_type = "Government"
            /\ (portal /\ ~gov /\ research) => hcall.result.site_type = "Research"
            /\ (portal /\ ~gov /\ ~research) => hcall.result.site_type = "Regional"
            /\ (~portal /\ HasDigitRun(domain)) => hcall.result.site_type = "Regional"
            /\ (~portal /\ ~HasDigitRun(domain)) => hcall.result = Unknown

\* a portal keyword with both 'gov' and 'research' in the domain
C25_Witness ==
    /\ HeurReturned("check_data_portal_patterns")
    /\ Contains(Domain(hcall.url), "dataportal")
    /\ Contains(Domain(hcall.url), "gov")
    /\ Contains(Domain(hcall.url), "research")
    /\ hcall.result = Result("Government", 65)
====
